---- MODULE Spec2Model ----
(***************************************************************************)
(* Semaforo Legislativo: scoring engine (api/correlacion.py), the store    *)
(* it writes (tables scores, alertas), the correlation records it reads    *)
(* (table correlaciones, written by api/lag.py) and the drivers of main.py *)
(* that call them.                                                         *)
(*                                                                         *)
(* Numbers.  Every score of the program is a float rounded to 2 decimals;  *)
(* the model keeps it as an integer number of hundredths (48.5 is 4850).   *)
(* Correlation coefficients are rounded to 4 decimals by lag.py and kept   *)
(* as integers in units of 1e-4, p-values (6 decimals) in units of 1e-6.   *)
(* Intermediate products are kept exact (units of 1e-4 points, or a        *)
(* numerator/denominator pair) and rounded where the code calls round():   *)
(* round half to even on the exact value.                                  *)
(***************************************************************************)
EXTENDS Integers, Sequences, FiniteSets

\* ------------------------------------------------------------------------
\* Bounds of the model
\* ------------------------------------------------------------------------
MaxDia == 2
MaxEjecuciones == 2

\* ------------------------------------------------------------------------
\* Configuration (config.py)
\* ------------------------------------------------------------------------
\* The registry, in iteration order (a prefix of the 14 keys of CATEGORIAS)
CATEGORIAS == <<"seguridad_justicia", "economia_hacienda">>

Cats == {CATEGORIAS[i] : i \in DOMAIN CATEGORIAS}

\* SCORING["pesos"], in hundredths
PesoMedia == 25
PesoTrends == 15
PesoCongreso == 30
PesoMananera == 15
PesoUrgencia == 15

\* SCORING["umbrales"], in points
UmbralVerde == 70
UmbralAmarillo == 40

\* URGENCIA factors, in tenths (1.5 and 0.5)
FactorPeriodoOrdinario == 15
FactorReceso == 5

\* URGENCIA["periodos_ordinarios"]: "MM-DD" strings as <<month, day>>
PeriodosOrdinarios ==
    << [inicio |-> <<9, 1>>, fin |-> <<12, 15>>],
       [inicio |-> <<2, 1>>, fin |-> <<4, 30>>] >>

\* LAG_CONFIG["p_value_threshold"] = 0.05, in units of 1e-6
PValueThreshold == 50000

\* LAG_CONFIG: ventana_dias, granger_max_lag, min_observaciones,
\* cross_correlation_lags
VentanaDias == 30
GrangerMaxLag == 7
MinObservaciones == 15
CrossCorrelationLags == 14

\* ------------------------------------------------------------------------
\* Arithmetic helpers
\* ------------------------------------------------------------------------
Min(a, b) == IF a <= b THEN a ELSE b

Abs(a) == IF a < 0 THEN -a ELSE a

\* Python round(): nearest integer to num/den, ties to the even one
\* (num >= 0, den > 0)
RoundHalfEven(num, den) ==
    LET q == num \div den
        r == num % den
    IN  IF 2 * r < den THEN q
        ELSE IF 2 * r > den THEN q + 1
        ELSE IF q % 2 = 0 THEN q ELSE q + 1

\* comparison of two zero-padded "MM-DD" strings
MesDiaLeq(a, b) == a[1] < b[1] \/ (a[1] = b[1] /\ a[2] <= b[2])

\* ------------------------------------------------------------------------
\* The clock: day number d of the model is the calendar date Hoy(d)
\* ------------------------------------------------------------------------
Fechas == << <<4, 30>>, <<5, 1>>, <<9, 1>>, <<12, 16>>, <<1, 31>>, <<2, 1>> >>

Hoy(d) == Fechas[((d - 1) % Len(Fechas)) + 1]

\* ------------------------------------------------------------------------
\* Signal providers (scrapers/*.py): what obtener_score_* yields for a
\* category is decided by the scraped tables; the model keeps, per
\* category, one Escenario: the four scores in hundredths, or Falla when
\* the provider raises, and the two filing counts of sil_documentos.
\* ------------------------------------------------------------------------
Falla == -1

\* sqlite3.OperationalError inside obtener_score_mananera
ErrorOperacional == -2

Esc(m, t, c, n, s14, s60) ==
    [media |-> m, trends |-> t, congreso |-> c, mananera |-> n,
     sil_reciente |-> s14, sil_mes |-> s60]

\* a store on which no scraper has run yet: no table articulos, gaceta,
\* mananera; obtener_score_trends creates its own table
SinTablas == Esc(Falla, 0, Falla, ErrorOperacional, 0, 0)

\* one Escenario for each category of the registry
Par(e1, e2) == [c \in Cats |-> IF c = CATEGORIAS[1] THEN e1 ELSE e2]

\* what the scrapers may leave
Escenarios ==
    { Par(Esc(8000, 6000, 5000, 0, 0, 0), Esc(9996, 10000, 10000, 0, 0, 0)),
      Par(Esc(8000, 6000, 5000, 0, 0, 0),
          Esc(5000, 5000, 5000, ErrorOperacional, 0, 0)),
      Par(Esc(10000, 10000, 10000, 10000, 4, 4), Esc(9996, 10000, 0, 0, 0, 0)),
      Par(Esc(Falla, 0, 0, 0, 0, 0), Esc(9996, 10000, 10000, 0, 0, 0)),
      Par(Esc(10000, 10000, 10000, 10000, 4, 4), Esc(0, 0, Falla, 0, 0, 0)) }

\* obtener_score_mananera: an OperationalError is answered with 0.0
obtener_score_mananera(e) ==
    IF e.mananera = ErrorOperacional THEN 0 ELSE e.mananera

\* ------------------------------------------------------------------------
\* Urgency estimator (api/correlacion.py)
\* ------------------------------------------------------------------------
calcular_factor_urgencia(hoy) ==
    IF \E i \in DOMAIN PeriodosOrdinarios :
          /\ MesDiaLeq(PeriodosOrdinarios[i].inicio, hoy)
          /\ MesDiaLeq(hoy, PeriodosOrdinarios[i].fin)
    THEN FactorPeriodoOrdinario
    ELSE FactorReceso

\* the query with ORDER BY fecha_analisis ASC: the oldest record
PrimeraCorrelacion(tabla, cat) ==
    LET filas == { tabla[i] : i \in { j \in DOMAIN tabla :
                       /\ tabla[j].categoria = cat
                       /\ tabla[j].tipo_analisis = "xcorr_medios_congreso" } }
    IN  { f \in filas : \A g \in filas : g.fecha_analisis >= f.fecha_analisis }

\* SELECT ... FROM correlaciones WHERE categoria = ? AND tipo_analisis =
\* 'xcorr_medios_congreso' ORDER BY fecha_analisis DESC LIMIT 1
\* (the set is empty when fetchone() gives None)
UltimaCorrelacion(tabla, cat) ==
    LET filas == { tabla[i] : i \in { j \in DOMAIN tabla :
                       /\ tabla[j].categoria = cat
                       /\ tabla[j].tipo_analisis = "xcorr_medios_congreso" } }
    IN  { f \in filas : \A g \in filas : g.fecha_analisis <= f.fecha_analisis }

\* component 1 without the discount of a record that is not significant
CorrScoreSinDescuento(corr_rows) ==
    IF corr_rows = {} THEN 0
    ELSE LET corr_row == CHOOSE f \in corr_rows : TRUE
         IN  Min(Abs(corr_row.coeficiente) * 150, 100 * 10000)

\* component 1, in units of 1e-4 points
CorrScore(corr_rows) ==
    IF corr_rows = {} THEN 0
    ELSE LET corr_row == CHOOSE f \in corr_rows : TRUE
             r == Abs(corr_row.coeficiente)
         IN  IF corr_row.significativo # 0
             THEN Min(r * 150, 100 * 10000)
             ELSE Min(r * 50, 30 * 10000)

\* component 2 without its cap
SilScoreSinTope(sil_reciente, sil_mes) ==
    IF sil_mes > 0
    THEN [num |-> 4 * sil_reciente * 40, den |-> sil_mes]
    ELSE [num |-> 0, den |-> 1]

\* component 2 as the fraction num/den of points
SilScore(sil_reciente, sil_mes) ==
    IF sil_mes > 0
    THEN \* aceleracion = sil_reciente / (sil_mes / 4); min(aceleracion*40, 100)
         [num |-> Min(4 * sil_reciente * 40, 100 * sil_mes), den |-> sil_mes]
    ELSE [num |-> 0, den |-> 1]

\* presion_real = score_media*0.6 + score_trends*0.4, in units of 1e-3 points
PresionReal(score_media, score_trends) == 6 * score_media + 4 * score_trends

\* component 3, in units of 1e-4 points
CalendarioScore(factor_cal, presion_real) ==
    IF factor_cal >= 15 /\ presion_real > 50 * 1000
    THEN Min(presion_real * 8, 100 * 10000)
    ELSE IF factor_cal >= 10
    THEN Min(presion_real * 4, 50 * 10000)
    ELSE 0

\* the locals of calcular_score_urgencia_historica when it returns
calcular_score_urgencia_historica(cat, score_media, score_trends, tabla, sil_reciente, sil_mes, hoy) ==
    LET corr_score == CorrScore(UltimaCorrelacion(tabla, cat))
        sil_score == SilScore(sil_reciente, sil_mes)
        factor_cal == calcular_factor_urgencia(hoy)
        presion_real == PresionReal(score_media, score_trends)
        calendario_score == CalendarioScore(factor_cal, presion_real)
        \* corr*0.40 + sil*0.40 + cal*0.20, in hundredths, over 1000*den
        num == (4 * corr_score + 2 * calendario_score) * sil_score.den
                 + 4 * sil_score.num * 10000
    IN  [categoria |-> cat,
         hay_fila |-> UltimaCorrelacion(tabla, cat) # {},
         fila_significativa |->
             \E f \in UltimaCorrelacion(tabla, cat) : f.significativo # 0,
         sil_reciente |-> sil_reciente,
         sil_mes |-> sil_mes,
         corr_score |-> corr_score,
         sil_score |-> sil_score,
         factor_cal |-> factor_cal,
         presion_real |-> presion_real,
         calendario_score |-> calendario_score,
         urgencia |-> Min(RoundHalfEven(num, 1000 * sil_score.den), 10000)]

\* obtener_prediccion (api/lag.py): the same query, then the prediction of
\* the dashboard.  confianza in tenths; dias_estimados is <<>> for None and
\* <<lag>> otherwise; prediccion keeps the head of the message
obtener_prediccion(tabla, categoria_clave) ==
    LET row == UltimaCorrelacion(tabla, categoria_clave)
    IN  IF row = {}
        THEN [categoria |-> categoria_clave,
              prediccion |-> "Sin datos suficientes para predicción",
              confianza |-> 0,
              dias_estimados |-> <<>>]
        ELSE LET fila == CHOOSE f \in row : TRUE
                 lag == fila.lag_optimo
                 coef == fila.coeficiente
                 sig == fila.significativo # 0
             IN  [categoria |-> categoria_clave,
                  lag_historico_dias |-> lag,
                  correlacion |-> coef,
                  significativo |-> sig,
                  confianza |-> IF sig
                                THEN RoundHalfEven(Min(Abs(coef) * 100, 100 * 10000), 1000)
                                ELSE RoundHalfEven(Abs(coef) * 50, 1000),
                  dias_estimados |-> IF sig THEN <<lag>> ELSE <<>>,
                  prediccion |-> "Basado en patrones históricos"]

\* ------------------------------------------------------------------------
\* Scoring engine (api/correlacion.py)
\* ------------------------------------------------------------------------
\* asignar_color with the verde threshold compared strictly
asignar_color_estricto(score) ==
    IF score > UmbralVerde * 100 THEN "verde"
    ELSE IF score >= UmbralAmarillo * 100 THEN "amarillo"
    ELSE "rojo"

asignar_color(score) ==
    IF score >= UmbralVerde * 100 THEN "verde"
    ELSE IF score >= UmbralAmarillo * 100 THEN "amarillo"
    ELSE "rojo"

\* the weighted sum with the media weight of the module docstring (0.30)
\* and without the cap
ScoreTotalSinTope(score_media, score_trends, score_congreso, score_mananera, score_urgencia) ==
    RoundHalfEven(30 * score_media
                    + PesoTrends * score_trends
                    + PesoCongreso * score_congreso
                    + PesoMananera * score_mananera
                    + PesoUrgencia * score_urgencia, 100)

\* the weighted sum with the weights of the module docstring
\* (0.30, 0.20, 0.25, 0.15, 0.10)
ScoreTotalPesosAntiguos(score_media, score_trends, score_congreso, score_mananera, score_urgencia) ==
    Min(RoundHalfEven(30 * score_media
                        + 20 * score_trends
                        + 25 * score_congreso
                        + 15 * score_mananera
                        + 10 * score_urgencia, 100),
        100 * 100)

\* the weighted sum, rounded to 2 decimals and capped (hundredths)
ScoreTotal(score_media, score_trends, score_congreso, score_mananera, score_urgencia) ==
    Min(RoundHalfEven(PesoMedia * score_media
                        + PesoTrends * score_trends
                        + PesoCongreso * score_congreso
                        + PesoMananera * score_mananera
                        + PesoUrgencia * score_urgencia, 100),
        100 * 100)

\* a provider raises for this category
FallaProveedor(e) ==
    \/ e.media = Falla
    \/ e.trends = Falla
    \/ e.congreso = Falla
    \/ e.mananera = Falla

\* some provider raises for this category, or the estimator does: its
\* SELECT ... FROM correlaciones on a store without that table
FallaCategoria(e, existe_tabla) ==
    \/ FallaProveedor(e)
    \/ ~existe_tabla

\* the dict calcular_score_categoria returns (no provider raised)
calcular_score_categoria(cat, e, tabla, d) ==
    LET score_mananera == obtener_score_mananera(e)
        u == calcular_score_urgencia_historica(cat, e.media, e.trends, tabla,
                 e.sil_reciente, e.sil_mes, Hoy(d))
        score_total == ScoreTotal(e.media, e.trends, e.congreso,
                                  score_mananera, u.urgencia)
    IN  [categoria |-> cat,
         score_total |-> score_total,
         score_media |-> e.media,
         score_trends |-> e.trends,
         score_congreso |-> e.congreso,
         score_mananera |-> score_mananera,
         score_urgencia |-> u.urgencia,
         color |-> asignar_color(score_total),
         factor_calendario |-> calcular_factor_urgencia(Hoy(d)),
         fecha |-> d]

\* ------------------------------------------------------------------------
\* The store (sqlite): a table is the sequence of its rows in rowid order
\* ------------------------------------------------------------------------
FilaScore(res) ==
    [categoria |-> res.categoria,
     score_total |-> res.score_total,
     score_media |-> res.score_media,
     score_trends |-> res.score_trends,
     score_congreso |-> res.score_congreso,
     score_mananera |-> res.score_mananera,
     score_urgencia |-> res.score_urgencia,
     color |-> res.color,
     fecha |-> res.fecha,
     detalle |-> res.factor_calendario]

\* UNIQUE(categoria, fecha) of table scores
ExisteScore(tabla, cat, fecha) ==
    \E i \in DOMAIN tabla : tabla[i].categoria = cat /\ tabla[i].fecha = fecha

\* INSERT INTO scores that passes on sqlite3.IntegrityError
GuardarScoreSinActualizar(tabla, res) ==
    IF ExisteScore(tabla, res.categoria, res.fecha)
    THEN tabla
    ELSE Append(tabla, FilaScore(res))

\* the fallback UPDATE setting score_total and color only
GuardarScoreParcial(tabla, res) ==
    IF ExisteScore(tabla, res.categoria, res.fecha)
    THEN [i \in DOMAIN tabla |->
             IF tabla[i].categoria = res.categoria /\ tabla[i].fecha = res.fecha
             THEN [tabla[i] EXCEPT !.score_total = res.score_total,
                                   !.color = res.color]
             ELSE tabla[i]]
    ELSE Append(tabla, FilaScore(res))

\* INSERT INTO scores; on sqlite3.IntegrityError, UPDATE scores SET ...
\* WHERE categoria=? AND fecha=?
GuardarScore(tabla, res) ==
    IF ExisteScore(tabla, res.categoria, res.fecha)
    THEN [i \in DOMAIN tabla |->
             IF tabla[i].categoria = res.categoria /\ tabla[i].fecha = res.fecha
             THEN [tabla[i] EXCEPT !.score_total = res.score_total,
                                   !.score_media = res.score_media,
                                   !.score_trends = res.score_trends,
                                   !.score_congreso = res.score_congreso,
                                   !.score_mananera = res.score_mananera,
                                   !.score_urgencia = res.score_urgencia,
                                   !.color = res.color,
                                   !.detalle = res.factor_calendario]
             ELSE tabla[i]]
    ELSE Append(tabla, FilaScore(res))

\* an alert for every result that is not rojo
GenerarAlertaNoRojo(tabla, res, ahora) ==
    IF res.color # "rojo"
    THEN Append(tabla, [categoria |-> res.categoria,
                        tipo_alerta |-> "score_alto",
                        score |-> res.score_total,
                        color |-> res.color,
                        fecha |-> ahora])
    ELSE tabla

\* INSERT INTO alertas when the result is verde
GenerarAlerta(tabla, res, ahora) ==
    IF res.color = "verde"
    THEN Append(tabla, [categoria |-> res.categoria,
                        tipo_alerta |-> "score_alto",
                        score |-> res.score_total,
                        color |-> res.color,
                        fecha |-> ahora])
    ELSE tabla

\* resultados.sort(key=score_total, reverse=True): stable, descending
RECURSIVE InsertarOrdenado(_, _)
InsertarOrdenado(r, s) ==
    IF s = <<>> THEN <<r>>
    ELSE IF s[Len(s)].score_total >= r.score_total THEN Append(s, r)
    ELSE Append(InsertarOrdenado(r, SubSeq(s, 1, Len(s) - 1)), s[Len(s)])

\* the sort without reverse=True
RECURSIVE InsertarAscendente(_, _)
InsertarAscendente(r, s) ==
    IF s = <<>> THEN <<r>>
    ELSE IF s[Len(s)].score_total <= r.score_total THEN Append(s, r)
    ELSE Append(InsertarAscendente(r, SubSeq(s, 1, Len(s) - 1)), s[Len(s)])

RECURSIVE OrdenarAscendente(_)
OrdenarAscendente(s) ==
    IF s = <<>> THEN <<>>
    ELSE InsertarAscendente(s[Len(s)], OrdenarAscendente(SubSeq(s, 1, Len(s) - 1)))

RECURSIVE OrdenarDescendente(_)
OrdenarDescendente(s) ==
    IF s = <<>> THEN <<>>
    ELSE InsertarOrdenado(s[Len(s)], OrdenarDescendente(SubSeq(s, 1, Len(s) - 1)))

\* ------------------------------------------------------------------------
\* numpy on series of integers, computed exactly
\* ------------------------------------------------------------------------
\* float('nan') where a p-value is expected
NaN == -3

RECURSIVE Suma(_)
Suma(s) == IF s = <<>> THEN 0 ELSE s[1] + Suma(Tail(s))

Productos(a, b) == [i \in DOMAIN a |-> a[i] * b[i]]

\* the slice s[:m]
Hasta(s, m) ==
    SubSeq(s, 1, IF m >= 0 THEN Min(m, Len(s))
                 ELSE IF Len(s) + m > 0 THEN Len(s) + m ELSE 0)

\* the slice s[a:], a >= 0
Desde(s, a) == SubSeq(s, a + 1, Len(s))

\* floor((q + r/den) * 10^pasos), 0 <= r < den
RECURSIVE Escalar(_, _, _, _)
Escalar(q, r, den, pasos) ==
    IF pasos = 0 THEN q
    ELSE Escalar(10 * q + (10 * r) \div den, (10 * r) % den, den, pasos - 1)

\* the largest m in lo..hi with m*m <= q
RECURSIVE RaizEntera(_, _, _)
RaizEntera(lo, hi, q) ==
    IF lo = hi THEN lo
    ELSE LET mid == (lo + hi + 1) \div 2
         IN  IF mid * mid <= q THEN RaizEntera(mid, hi, q)
             ELSE RaizEntera(lo, mid - 1, q)

\* sqrt(num2 / den) * 10^(pasos/2), rounded to the nearest integer
RaizRedondeada(num2, den, pasos) ==
    LET q == Escalar((4 * num2) \div den, (4 * num2) % den, den, pasos)
    IN  (RaizEntera(0, 46340, q) + 1) \div 2

\* np.corrcoef(a, b)[0, 1]: ValueError when the lengths differ, nan when a
\* variance is 0 or fewer than 2 points are left, else Pearson's r; r is
\* kept rounded to 4 decimals, with the facts r = 0 and |r| = 1
corrcoef(a, b) ==
    IF Len(a) # Len(b)
    THEN [excepcion |-> TRUE, nan |-> FALSE, r |-> 0, cero |-> FALSE, uno |-> FALSE]
    ELSE LET n == Len(a)
             cov == n * Suma(Productos(a, b)) - Suma(a) * Suma(b)
             va == n * Suma(Productos(a, a)) - Suma(a) * Suma(a)
             vb == n * Suma(Productos(b, b)) - Suma(b) * Suma(b)
         IN  IF n < 2 \/ va = 0 \/ vb = 0
             THEN [excepcion |-> FALSE, nan |-> TRUE, r |-> 0, cero |-> FALSE,
                   uno |-> FALSE]
             ELSE [excepcion |-> FALSE, nan |-> FALSE,
                   r |-> (IF cov < 0 THEN -1 ELSE 1)
                            * RaizRedondeada(cov * cov, va * vb, 8),
                   cero |-> cov = 0,
                   uno |-> cov * cov = va * vb]

\* ------------------------------------------------------------------------
\* cross_correlation (api/lag.py).  p is what scipy's t.cdf yields for a
\* correlation that is neither 0 nor +-1, in units of 1e-7; the entry keeps
\* round(p_value, 6), in units of 1e-6, and tests the value before rounding
\* ------------------------------------------------------------------------
\* one iteration of the loop over the lags
EntradaLag(x, y, lag, p) ==
    LET n == Len(x)
        a == IF lag > 0 THEN Hasta(x, n - lag)
             ELSE IF lag < 0 THEN Desde(x, -lag) ELSE x
        b == IF lag > 0 THEN Desde(y, lag)
             ELSE IF lag < 0 THEN Hasta(y, n + lag) ELSE y
        c == corrcoef(a, b)
        n_eff == n - Abs(lag)
        p_value == IF n_eff <= 2 THEN 10000000
                   ELSE IF c.nan THEN NaN
                   ELSE IF c.cero THEN 10000000
                   ELSE IF c.uno THEN 0
                   ELSE p
    IN  [lag |-> lag,
         excepcion |-> c.excepcion,
         correlacion |-> IF c.nan THEN 0 ELSE c.r,
         p_value |-> IF p_value = NaN THEN NaN ELSE RoundHalfEven(p_value, 10),
         significativo |-> p_value # NaN /\ p_value < PValueThreshold * 10]

\* max(correlaciones, key=abs(correlacion)) over every lag
MejorLagTodos(correlaciones) ==
    IF correlaciones # <<>>
    THEN correlaciones[CHOOSE i \in DOMAIN correlaciones :
             /\ \A j \in DOMAIN correlaciones :
                    Abs(correlaciones[j].correlacion)
                        <= Abs(correlaciones[i].correlacion)
             /\ \A j \in 1..(i - 1) :
                    Abs(correlaciones[j].correlacion)
                        < Abs(correlaciones[i].correlacion)]
    ELSE [lag |-> 0, correlacion |-> 0, p_value |-> 1000000]

\* the same over the lags >= 0
MejorLagNoNegativos(correlaciones) ==
    LET EsNoNegativo(c) == c.lag >= 0
        candidatos == SelectSeq(correlaciones, EsNoNegativo)
    IN  IF candidatos # <<>>
        THEN candidatos[CHOOSE i \in DOMAIN candidatos :
                 /\ \A j \in DOMAIN candidatos :
                        Abs(candidatos[j].correlacion)
                            <= Abs(candidatos[i].correlacion)
                 /\ \A j \in 1..(i - 1) :
                        Abs(candidatos[j].correlacion)
                            < Abs(candidatos[i].correlacion)]
        ELSE [lag |-> 0, correlacion |-> 0, p_value |-> 1000000]

\* lags_positivos, and max(lags_positivos, key=abs(correlacion)): the first
\* of the greatest
MejorLag(correlaciones) ==
    LET EsPositivo(c) == c.lag > 0
        lags_positivos == SelectSeq(correlaciones, EsPositivo)
    IN  IF lags_positivos # <<>>
        THEN lags_positivos[CHOOSE i \in DOMAIN lags_positivos :
                 /\ \A j \in DOMAIN lags_positivos :
                        Abs(lags_positivos[j].correlacion)
                            <= Abs(lags_positivos[i].correlacion)
                 /\ \A j \in 1..(i - 1) :
                        Abs(lags_positivos[j].correlacion)
                            < Abs(lags_positivos[i].correlacion)]
        ELSE [lag |-> 0, correlacion |-> 0, p_value |-> 1000000]

cross_correlation(x, y, max_lags, p) ==
    IF Len(x) < MinObservaciones
    THEN [error |-> TRUE, excepcion |-> FALSE,
          mensaje |-> "Insuficientes observaciones"]
    ELSE LET correlaciones ==
                 [i \in 1..(2 * max_lags + 1) |->
                     EntradaLag(x, y, i - max_lags - 1, p)]
             mejor == MejorLag(correlaciones)
         IN  IF \E i \in DOMAIN correlaciones : correlaciones[i].excepcion
             THEN [error |-> TRUE, excepcion |-> TRUE, mensaje |-> "ValueError"]
             ELSE [error |-> FALSE, excepcion |-> FALSE,
                   correlaciones |->
                       [i \in DOMAIN correlaciones |->
                           [lag |-> correlaciones[i].lag,
                            correlacion |-> correlaciones[i].correlacion,
                            p_value |-> correlaciones[i].p_value,
                            significativo |-> correlaciones[i].significativo]],
                   lag_optimo |-> mejor.lag,
                   correlacion_maxima |-> mejor.correlacion,
                   p_value_optimo |-> mejor.p_value]

\* ------------------------------------------------------------------------
\* granger_test (api/lag.py).  ols[lag] is what the two least-squares fits
\* of that lag come to: "error" (lstsq raises LinAlgError or ValueError,
\* which the loop catches), "exacto" (ssr_nr == 0) or "f", an F statistic
\* (1e-4) with its p-value (1e-7); a result keeps round(p_value, 6), in
\* units of 1e-6, and tests the value before rounding
\* ------------------------------------------------------------------------
granger_test(x, y, max_lag, ols) ==
    LET n == Len(y)
        df2(lag) == (n - lag) - (2 * lag + 1)
        Probado(lag) == ols[lag].tipo = "f" /\ df2(lag) > 0
        lags == SelectSeq([i \in 1..max_lag |-> i], Probado)
    IN  IF n < max_lag + MinObservaciones
        THEN [error |-> TRUE, excepcion |-> FALSE,
              mensaje |-> "Insuficientes observaciones", resultados |-> <<>>]
        ELSE [error |-> FALSE, excepcion |-> FALSE,
              max_lag_probado |-> max_lag, n_observaciones |-> n,
              resultados |->
                  [j \in DOMAIN lags |->
                      [lag |-> lags[j],
                       f_statistic |-> ols[lags[j]].f,
                       p_value |-> RoundHalfEven(ols[lags[j]].p, 10),
                       significativo |-> ols[lags[j]].p < PValueThreshold * 10]]]

\* ------------------------------------------------------------------------
\* detectar_picos (api/lag.py).  umbral_zscore is in tenths; with
\* L = n*valor - sum and D = n*sum of squares - sum^2, z = L / sqrt(D)
\* ------------------------------------------------------------------------
\* default of umbral_zscore: 2.0
UmbralZscore == 20

\* z > umbral_zscore
DetectarPicosEstricto(serie, umbral_zscore) ==
    LET n == Len(serie)
        S == Suma(serie)
        D == n * Suma(Productos(serie, serie)) - S * S
        L(i) == n * serie[i] - S
        Supera(i) ==
            IF umbral_zscore >= 0
            THEN L(i) >= 0 /\ 100 * L(i) * L(i) > umbral_zscore * umbral_zscore * D
            ELSE L(i) >= 0 \/ 100 * L(i) * L(i) < umbral_zscore * umbral_zscore * D
        indices == SelectSeq([i \in 1..n |-> i], Supera)
    IN  IF n < 5 THEN <<>>
        ELSE IF D = 0 THEN <<>>
        ELSE [j \in DOMAIN indices |->
                 [indice |-> indices[j] - 1,
                  valor |-> serie[indices[j]],
                  z_score |-> (IF L(indices[j]) < 0 THEN -1 ELSE 1)
                      * RaizRedondeada(L(indices[j]) * L(indices[j]), D, 4)]]

detectar_picos(serie, umbral_zscore) ==
    LET n == Len(serie)
        S == Suma(serie)
        D == n * Suma(Productos(serie, serie)) - S * S
        L(i) == n * serie[i] - S
        Supera(i) ==
            IF umbral_zscore >= 0
            THEN L(i) >= 0 /\ 100 * L(i) * L(i) >= umbral_zscore * umbral_zscore * D
            ELSE L(i) >= 0 \/ 100 * L(i) * L(i) <= umbral_zscore * umbral_zscore * D
        indices == SelectSeq([i \in 1..n |-> i], Supera)
    IN  IF n < 5 THEN <<>>
        ELSE IF D = 0 THEN <<>>
        ELSE [j \in DOMAIN indices |->
                 [indice |-> indices[j] - 1,
                  valor |-> serie[indices[j]],
                  z_score |-> (IF L(indices[j]) < 0 THEN -1 ELSE 1)
                      * RaizRedondeada(L(indices[j]) * L(indices[j]), D, 4)]]

\* ------------------------------------------------------------------------
\* analizar_categoria (api/lag.py).  A series read from the store is a
\* dict {fecha: valor}: a function whose keys are day numbers, 1 the oldest
\* day of the window and dias today, 0 a day before the window
\* ------------------------------------------------------------------------
alinear_series(serie_a, serie_b, dias) ==
    << [f \in 1..dias |-> IF f \in DOMAIN serie_a THEN serie_a[f] ELSE 0],
       [f \in 1..dias |-> IF f \in DOMAIN serie_b THEN serie_b[f] ELSE 0] >>

SeriesVacias == [error |-> TRUE, excepcion |-> FALSE, mensaje |-> "Series vacías"]

\* the three analyses without the np.sum(..) > 0 guards
AnalizarCategoriaSinGuardia(categoria_clave, menciones_medios, actividad_congreso, trends, p, ols) ==
    LET medios_arr == alinear_series(menciones_medios, actividad_congreso, VentanaDias)[1]
        congreso_arr == alinear_series(menciones_medios, actividad_congreso, VentanaDias)[2]
        trends_arr == alinear_series(trends, actividad_congreso, VentanaDias)[1]
    IN  [categoria |-> categoria_clave,
         n_dias |-> VentanaDias,
         granger_medios_congreso |->
             granger_test(medios_arr, congreso_arr, GrangerMaxLag, ols),
         xcorr_medios_congreso |->
             cross_correlation(medios_arr, congreso_arr, CrossCorrelationLags, p),
         xcorr_trends_congreso |->
             cross_correlation(trends_arr, congreso_arr, CrossCorrelationLags, p),
         picos_medios |-> detectar_picos(medios_arr, UmbralZscore),
         picos_congreso |-> detectar_picos(congreso_arr, UmbralZscore)]

analizar_categoria(categoria_clave, menciones_medios, actividad_congreso, trends, p, ols) ==
    LET medios_arr == alinear_series(menciones_medios, actividad_congreso, VentanaDias)[1]
        congreso_arr == alinear_series(menciones_medios, actividad_congreso, VentanaDias)[2]
        trends_arr == alinear_series(trends, actividad_congreso, VentanaDias)[1]
    IN  [categoria |-> categoria_clave,
         n_dias |-> VentanaDias,
         granger_medios_congreso |->
             IF Suma(medios_arr) > 0 /\ Suma(congreso_arr) > 0
             THEN granger_test(medios_arr, congreso_arr, GrangerMaxLag, ols)
             ELSE SeriesVacias,
         xcorr_medios_congreso |->
             IF Suma(medios_arr) > 0 /\ Suma(congreso_arr) > 0
             THEN cross_correlation(medios_arr, congreso_arr, CrossCorrelationLags, p)
             ELSE SeriesVacias,
         xcorr_trends_congreso |->
             IF Suma(trends_arr) > 0 /\ Suma(congreso_arr) > 0
             THEN cross_correlation(trends_arr, congreso_arr, CrossCorrelationLags, p)
             ELSE SeriesVacias,
         picos_medios |-> detectar_picos(medios_arr, UmbralZscore),
         picos_congreso |-> detectar_picos(congreso_arr, UmbralZscore)]

\* ------------------------------------------------------------------------
\* Temporal correlation engine (api/lag.py), as far as the store sees it:
\* what analizar_categoria returns for a category is one of Analisis
\* ------------------------------------------------------------------------
SinResultado == [error |-> TRUE]

XcorrSignificativa ==
    [error |-> FALSE, lag_optimo |-> 3, correlacion_maxima |-> 5000,
     p_value_optimo |-> 100]

XcorrDebil ==
    [error |-> FALSE, lag_optimo |-> 1, correlacion_maxima |-> -35,
     p_value_optimo |-> 300000]

GrangerSignificativo ==
    [error |-> FALSE, lag |-> 2, f_statistic |-> 61234, p_value |-> 1200,
     significativo |-> TRUE]

Analisis ==
    { Par([xcorr |-> SinResultado, granger |-> SinResultado],
          [xcorr |-> SinResultado, granger |-> SinResultado]),
      Par([xcorr |-> XcorrSignificativa, granger |-> GrangerSignificativo],
          [xcorr |-> XcorrDebil, granger |-> SinResultado]),
      Par([xcorr |-> XcorrSignificativa, granger |-> GrangerSignificativo],
          [xcorr |-> SinResultado, granger |-> SinResultado]) }

\* UNIQUE(categoria, tipo_analisis, fecha_analisis); INSERT, and pass on
\* sqlite3.IntegrityError
InsertarCorrelacion(tabla, fila) ==
    IF \E i \in DOMAIN tabla :
          /\ tabla[i].categoria = fila.categoria
          /\ tabla[i].tipo_analisis = fila.tipo_analisis
          /\ tabla[i].fecha_analisis = fila.fecha_analisis
    THEN tabla
    ELSE Append(tabla, fila)

GuardarXcorr(tabla, cat, xcorr, fecha_hoy) ==
    IF xcorr.error THEN tabla
    ELSE InsertarCorrelacion(tabla,
            [categoria |-> cat,
             tipo_analisis |-> "xcorr_medios_congreso",
             lag_optimo |-> xcorr.lag_optimo,
             coeficiente |-> xcorr.correlacion_maxima,
             p_value |-> xcorr.p_value_optimo,
             significativo |->
                 IF /\ xcorr.p_value_optimo # NaN
                    /\ xcorr.p_value_optimo < PValueThreshold
                 THEN 1 ELSE 0,
             fecha_analisis |-> fecha_hoy])

GuardarGranger(tabla, cat, granger, fecha_hoy) ==
    IF granger.error THEN tabla
    ELSE InsertarCorrelacion(tabla,
            [categoria |-> cat,
             tipo_analisis |-> "granger_medios_congreso",
             lag_optimo |-> granger.lag,
             coeficiente |-> granger.f_statistic,
             p_value |-> granger.p_value,
             significativo |-> IF granger.significativo THEN 1 ELSE 0,
             fecha_analisis |-> fecha_hoy])

\* the last of the results with the smallest p_value
MejorGrangerUltimo(granger) ==
    IF granger.error THEN SinResultado
    ELSE IF granger.resultados = <<>> THEN SinResultado
    ELSE LET res == granger.resultados
             i == CHOOSE i \in DOMAIN res :
                      /\ \A j \in DOMAIN res : res[i].p_value <= res[j].p_value
                      /\ \A j \in (i + 1)..Len(res) : res[j].p_value > res[i].p_value
         IN  [error |-> FALSE, lag |-> res[i].lag,
              f_statistic |-> res[i].f_statistic, p_value |-> res[i].p_value,
              significativo |-> res[i].significativo]

\* "error" not in granger and granger.get("resultados"), then
\* min(granger["resultados"], key=p_value): the first of the smallest
MejorGranger(granger) ==
    IF granger.error THEN SinResultado
    ELSE IF granger.resultados = <<>> THEN SinResultado
    ELSE LET res == granger.resultados
             i == CHOOSE i \in DOMAIN res :
                      /\ \A j \in DOMAIN res : res[i].p_value <= res[j].p_value
                      /\ \A j \in 1..(i - 1) : res[j].p_value > res[i].p_value
         IN  [error |-> FALSE, lag |-> res[i].lag,
              f_statistic |-> res[i].f_statistic, p_value |-> res[i].p_value,
              significativo |-> res[i].significativo]

\* the loop of analizar_todas_categorias from category i on
RECURSIVE analizar_todas_categorias(_, _, _, _)
analizar_todas_categorias(tabla, i, an, fecha_hoy) ==
    IF i > Len(CATEGORIAS) THEN tabla
    ELSE LET cat == CATEGORIAS[i]
             t1 == GuardarXcorr(tabla, cat, an[cat].xcorr, fecha_hoy)
             t2 == GuardarGranger(t1, cat, an[cat].granger, fecha_hoy)
         IN  analizar_todas_categorias(t2, i + 1, an, fecha_hoy)

\* ------------------------------------------------------------------------
\* State
\* ------------------------------------------------------------------------
\* ------------------------------------------------------------------------
\* Consumers of table scores: the resolution tracker (api/resoluciones.py)
\* and the score-history export (api/correlacion.py).  A fecha is a day
\* number, day 1 a Monday; table sil_documentos is kept as the number of
\* filings per category and week (weeks without filings have no entry)
\* ------------------------------------------------------------------------
\* days of a week
DiasPorSemana == 7

\* score_prom >= 50 predicts high activity
UmbralPrediccion == 50

\* _semana_iso(_lunes_de_semana(fecha)), as a week number
Semana(fecha) == ((fecha - 1) \div DiasPorSemana) + 1

\* total of a column over the rows of a table
RECURSIVE SumaScores(_)
SumaScores(filas) ==
    IF filas = <<>> THEN 0 ELSE filas[1].score_total + SumaScores(Tail(filas))

\* sum and number of the filings-per-week entries of a category
RECURSIVE SumaDocs(_, _)
SumaDocs(docs, semanas) ==
    IF semanas = {} THEN 0
    ELSE LET w == CHOOSE w \in semanas : TRUE
         IN  docs[w] + SumaDocs(docs, semanas \ {w})

\* _calcular_promedios_historicos: total_docs / n_semanas, or 0.0
PromedioHistorico(docs) ==
    IF DOMAIN docs = {} THEN [num |-> 0, den |-> 1]
    ELSE [num |-> SumaDocs(docs, DOMAIN docs), den |-> Cardinality(DOMAIN docs)]

\* _asignar_color of api/resoluciones.py on an average sum/n of scores
ColorPromedio(suma, n) ==
    IF suma >= UmbralVerde * 100 * n THEN "verde"
    ELSE IF suma >= UmbralAmarillo * 100 * n THEN "amarillo"
    ELSE "rojo"

\* the row of one category and week; a NULL or zero AVG(score_total) is
\* taken as 0.0
Resolucion(tabla_scores, docs, cat, semana, ahora) ==
    LET EnSemana(r) == r.categoria = cat /\ Semana(r.fecha) = semana
        filas == SelectSeq(tabla_scores, EnSemana)
        avg == IF filas = <<>> THEN [nulo |-> TRUE, suma |-> 0, n |-> 1]
               ELSE [nulo |-> FALSE, suma |-> SumaScores(filas), n |-> Len(filas)]
        score_prom == IF avg.nulo \/ avg.suma = 0 THEN [suma |-> 0, n |-> 1]
                      ELSE [suma |-> avg.suma, n |-> avg.n]
        docs_reales == IF semana \in DOMAIN docs[cat] THEN docs[cat][semana] ELSE 0
        prom_hist == PromedioHistorico(docs[cat])
        prediccion_alta == score_prom.suma >= UmbralPrediccion * 100 * score_prom.n
        actividad_alta == docs_reales * prom_hist.den > prom_hist.num
    IN  [semana |-> semana,
         categoria |-> cat,
         score_promedio |-> RoundHalfEven(score_prom.suma, score_prom.n),
         color_prediccion |-> ColorPromedio(score_prom.suma, score_prom.n),
         docs_reales |-> docs_reales,
         promedio_historico |-> RoundHalfEven(100 * prom_hist.num, prom_hist.den),
         acierto |-> IF prediccion_alta = actividad_alta THEN 1 ELSE 0,
         tipo_resultado |->
             IF prediccion_alta = actividad_alta THEN "acierto"
             ELSE IF prediccion_alta THEN "sobreestimacion"
             ELSE "subestimacion",
         fecha_calculo |-> ahora]

\* INSERT OR REPLACE INTO resoluciones, UNIQUE(semana, categoria), without
\* the replacement
InsertarResolucion(tabla, fila) == Append(tabla, fila)

\* INSERT OR REPLACE INTO resoluciones, UNIQUE(semana, categoria)
ReemplazarResolucion(tabla, fila) ==
    LET Otra(r) == ~(r.semana = fila.semana /\ r.categoria = fila.categoria)
    IN  Append(SelectSeq(tabla, Otra), fila)

\* the loop over the categories, from category i on, for one week
RECURSIVE ResolverSemana(_, _, _, _, _, _)
ResolverSemana(tabla, tabla_scores, docs, semana, i, ahora) ==
    IF i > Len(CATEGORIAS) THEN tabla
    ELSE ResolverSemana(
             ReemplazarResolucion(tabla,
                 Resolucion(tabla_scores, docs, CATEGORIAS[i], semana, ahora)),
             tabla_scores, docs, semana, i + 1, ahora)

\* the loop over the weeks from lunes_actual on, while the Sunday of the
\* week is not after today; a week without scores is skipped
RECURSIVE ResolverDesde(_, _, _, _, _)
ResolverDesde(tabla, tabla_scores, docs, semana, hoy) ==
    IF semana * DiasPorSemana > hoy THEN tabla
    ELSE IF \E i \in DOMAIN tabla_scores : Semana(tabla_scores[i].fecha) = semana
    THEN ResolverDesde(ResolverSemana(tabla, tabla_scores, docs, semana, 1, hoy),
                       tabla_scores, docs, semana + 1, hoy)
    ELSE ResolverDesde(tabla, tabla_scores, docs, semana + 1, hoy)

\* calcular_resoluciones_semanales: the table resoluciones it leaves
calcular_resoluciones_semanales(tabla_scores, docs, tabla, hoy) ==
    IF tabla_scores = <<>> THEN tabla
    ELSE LET primera == CHOOSE f \in {tabla_scores[i].fecha : i \in DOMAIN tabla_scores} :
                            \A i \in DOMAIN tabla_scores : f <= tabla_scores[i].fecha
         IN  ResolverDesde(tabla, tabla_scores, docs, Semana(primera), hoy)

\* None in the export
Nulo == [nulo |-> TRUE]

\* obtener_historial_scores_todas: fechas are the dates that have a score,
\* ascending; per category, aligned with them, round(score_total, 1) (in
\* tenths) and color, or None where the category has no row
obtener_historial_scores_todas(tabla_scores) ==
    LET dias == {tabla_scores[i].fecha : i \in DOMAIN tabla_scores}
        RECURSIVE Ordenadas(_)
        Ordenadas(ds) ==
            IF ds = {} THEN <<>>
            ELSE LET m == CHOOSE d \in ds : \A e \in ds : d <= e
                 IN  <<m>> \o Ordenadas(ds \ {m})
        fechas == Ordenadas(dias)
        Dato(cat, f) ==
            IF \E i \in DOMAIN tabla_scores :
                   tabla_scores[i].categoria = cat /\ tabla_scores[i].fecha = f
            THEN LET r == tabla_scores[CHOOSE i \in DOMAIN tabla_scores :
                              /\ tabla_scores[i].categoria = cat
                              /\ tabla_scores[i].fecha = f]
                 IN  [nulo |-> FALSE, score |-> RoundHalfEven(r.score_total, 10),
                      color |-> r.color]
            ELSE Nulo
    IN  [fechas |-> fechas,
         categorias |-> [c \in Cats |-> [j \in DOMAIN fechas |-> Dato(c, fechas[j])]]]

VARIABLES
    dia,                  \* the clock: today's day number
    senales,              \* per category, what the providers yield now
    tabla_correlaciones,  \* table correlaciones exists (lag.init_db ran)
    correlaciones,        \* table correlaciones
    scores,               \* table scores (committed)
    alertas,              \* table alertas (committed)
    modo,                 \* which driver of main.py is running
    paso,                 \* its position
    k,                    \* calcular_todos_los_scores: index of the loop
    resultados,           \* calcular_todos_los_scores: the list being built
    conn,                 \* its connection: the tables with its pending writes
    retorno,              \* what calcular_todos_los_scores returned last
    urg,                  \* locals of the last call of the urgency estimator
    ejecuciones,          \* number of invocations of main.py so far
    ultimo,               \* history: per key, result of the last completed run
    inicio,               \* history: inputs when the running batch started
    ant,                  \* history: inputs of, and store after, an earlier run
    repetida,             \* history: the last run repeated run ant unchanged
    corrida,              \* history: how the last batch ended (causa: what
                          \* raised; otras: the categories an aborted batch
                          \* left uncomputed though nothing fails for them;
                          \* actualizadas: rows a completed batch changed in
                          \* place)
    series,               \* api/lag.py: the series and arguments of a call
    sal,                  \* what the last call of a function returned
    escritores,           \* two processes running calcular_todos_los_scores
    sil_documentos,       \* table sil_documentos, as api/resoluciones.py counts it
    resoluciones          \* table resoluciones

vars == <<dia, senales, tabla_correlaciones, correlaciones, scores, alertas,
          modo, paso, k, resultados, conn, retorno, urg, ejecuciones,
          ultimo, inicio, ant, repetida, corrida, series, sal, escritores,
          sil_documentos, resoluciones>>

store == <<scores, alertas, tabla_correlaciones, correlaciones>>

historia == <<ultimo, ant, repetida, corrida>>

lagvars == <<series, sal>>

otros == <<escritores, sil_documentos, resoluciones>>

\* no concurrent writers
SinEscritores == <<>>

\* no filing of any category
SinDocumentos == [c \in Cats |-> <<>>]

\* no call of api/lag.py yet
SinSeries ==
    [x |-> <<>>, y |-> <<>>, max_lags |-> 0, max_lag |-> 0,
     umbral_zscore |-> 0, menciones_medios |-> [c \in Cats |-> <<>>],
     actividad_congreso |-> <<>>, trends |-> [c \in Cats |-> <<>>],
     p |-> 0, ols |-> <<>>]

SinSalida == [fn |-> ""]

SinConexion == [scores |-> <<>>, alertas |-> <<>>]

SinUrgencia ==
    [categoria |-> "", hay_fila |-> FALSE, fila_significativa |-> FALSE,
     sil_reciente |-> 0, sil_mes |-> 0, corr_score |-> 0,
     sil_score |-> [num |-> 0, den |-> 1], factor_cal |-> FactorReceso,
     presion_real |-> 0, calendario_score |-> 0, urgencia |-> 0]

Entradas(s, c, d) == [senales |-> s, correlaciones |-> c, dia |-> d]

Init ==
    /\ dia = 1
    /\ senales = [c \in Cats |-> SinTablas]
    /\ tabla_correlaciones \in BOOLEAN
    /\ correlaciones = <<>>
    /\ scores = <<>>
    /\ alertas = <<>>
    /\ modo = "ninguno"
    /\ paso = "inactivo"
    /\ k = 0
    /\ resultados = <<>>
    /\ conn = SinConexion
    /\ retorno = <<>>
    /\ urg = SinUrgencia
    /\ ejecuciones = 0
    /\ ultimo = {}
    /\ inicio = Entradas(senales, <<>>, 0)
    /\ ant = [valido |-> FALSE, entradas |-> Entradas(senales, <<>>, 0),
              scores |-> <<>>, alertas |-> <<>>]
    /\ repetida = FALSE
    /\ corrida = [estado |-> "ninguna", fallo |-> "", causa |-> "", dia |-> 0,
                  otras |-> {}, actualizadas |-> 0]
    /\ series = SinSeries
    /\ sal = SinSalida
    /\ escritores = SinEscritores
    /\ sil_documentos = SinDocumentos
    /\ resoluciones = <<>>

\* calcular_todos_los_scores starts: conn = init_db(), resultados = []
AbrirScoring ==
    /\ k' = 1
    /\ resultados' = <<>>
    /\ retorno' = <<>>
    /\ conn' = [scores |-> scores, alertas |-> alertas]
    /\ inicio' = Entradas(senales', correlaciones', dia)

\* ------------------------------------------------------------------------
\* main.py
\* ------------------------------------------------------------------------
\* python main.py: ejecutar_pipeline_completo
IniciarPipeline ==
    /\ paso = "inactivo"
    /\ ejecuciones < MaxEjecuciones
    /\ ejecuciones' = ejecuciones + 1
    /\ modo' = "completo"
    /\ paso' = "scraping"
    /\ UNCHANGED <<dia, senales, store, k, resultados, conn, retorno, urg,
                   inicio, historia>>
    /\ UNCHANGED lagvars
    /\ UNCHANGED otros

\* pasos 1 to 4: the scrapers and the classifier renew the signal tables
Scraping ==
    /\ paso = "scraping"
    /\ \E s \in Escenarios : senales' = s
    /\ paso' = "paso_5"
    /\ UNCHANGED <<store>>
    /\ AbrirScoring
    /\ UNCHANGED <<dia, modo, urg, ejecuciones, historia>>
    /\ UNCHANGED lagvars
    /\ UNCHANGED otros

\* python main.py --solo-scoring: ejecutar_solo_scoring
IniciarSoloScoring ==
    /\ paso = "inactivo"
    /\ ejecuciones < MaxEjecuciones
    /\ ejecuciones' = ejecuciones + 1
    /\ modo' = "solo_scoring"
    /\ paso' = "paso_5"
    /\ UNCHANGED <<senales, store>>
    /\ AbrirScoring
    /\ UNCHANGED <<dia, urg, historia>>
    /\ UNCHANGED lagvars
    /\ UNCHANGED otros

\* python main.py --reporte: generar_reporte() if obtener_scores_actuales()
\* finds rows, else only a message
IniciarReporte ==
    /\ paso = "inactivo"
    /\ ejecuciones < MaxEjecuciones
    /\ ejecuciones' = ejecuciones + 1
    /\ UNCHANGED <<senales, store>>
    /\ IF scores # <<>>
       THEN /\ modo' = "reporte"
            /\ paso' = "reporte"
            /\ AbrirScoring
       ELSE UNCHANGED <<modo, paso, k, resultados, conn, retorno, inicio>>
    /\ UNCHANGED <<dia, urg, historia>>
    /\ UNCHANGED lagvars
    /\ UNCHANGED otros

\* ------------------------------------------------------------------------
\* calcular_todos_los_scores (paso_5_scoring and generar_reporte)
\* ------------------------------------------------------------------------
EnScoring == paso \in {"paso_5", "reporte"}

\* one iteration of the loop with a conn.commit() at its end
ScoreCategoriaConCommit ==
    /\ EnScoring
    /\ k \in 1..Len(CATEGORIAS)
    /\ LET cat == CATEGORIAS[k]
           e == senales[cat]
       IN  /\ ~FallaCategoria(e, tabla_correlaciones)
           /\ LET res == calcular_score_categoria(cat, e, correlaciones, dia)
              IN  /\ resultados' = Append(resultados, res)
                  /\ conn' = [scores |-> GuardarScore(conn.scores, res),
                              alertas |-> GenerarAlerta(conn.alertas, res, dia)]
                  /\ scores' = conn'.scores
                  /\ alertas' = conn'.alertas
           /\ urg' = calcular_score_urgencia_historica(cat, e.media, e.trends,
                         correlaciones, e.sil_reciente, e.sil_mes, Hoy(dia))
    /\ k' = k + 1
    /\ UNCHANGED <<dia, senales, tabla_correlaciones, correlaciones, modo,
                   paso, retorno, ejecuciones, inicio, historia>>
    /\ UNCHANGED lagvars
    /\ UNCHANGED otros

\* one iteration of the loop: score, INSERT or UPDATE, alert
ScoreCategoria ==
    /\ EnScoring
    /\ k \in 1..Len(CATEGORIAS)
    /\ LET cat == CATEGORIAS[k]
           e == senales[cat]
       IN  /\ ~FallaCategoria(e, tabla_correlaciones)
           /\ LET res == calcular_score_categoria(cat, e, correlaciones, dia)
              IN  /\ resultados' = Append(resultados, res)
                  /\ conn' = [scores |-> GuardarScore(conn.scores, res),
                              alertas |-> GenerarAlerta(conn.alertas, res, dia)]
           /\ urg' = calcular_score_urgencia_historica(cat, e.media, e.trends,
                         correlaciones, e.sil_reciente, e.sil_mes, Hoy(dia))
    /\ k' = k + 1
    /\ UNCHANGED <<dia, senales, store, modo, paso, retorno, ejecuciones,
                   inicio, historia>>
    /\ UNCHANGED lagvars
    /\ UNCHANGED otros

\* a provider or the estimator raises: nothing catches it, the process
\* ends and the connection is dropped with its pending writes
FallaScoring ==
    /\ EnScoring
    /\ k \in 1..Len(CATEGORIAS)
    /\ FallaCategoria(senales[CATEGORIAS[k]], tabla_correlaciones)
    /\ corrida' = [estado |-> "abortada", fallo |-> CATEGORIAS[k],
                   causa |-> IF FallaProveedor(senales[CATEGORIAS[k]])
                             THEN "proveedor" ELSE "correlaciones",
                   dia |-> dia,
                   otras |-> { c \in Cats \ {CATEGORIAS[k]} :
                                  ~FallaCategoria(senales[c], tabla_correlaciones) },
                   actualizadas |-> 0]
    /\ modo' = "ninguno"
    /\ paso' = "inactivo"
    /\ k' = 0
    /\ resultados' = <<>>
    /\ conn' = SinConexion
    /\ urg' = SinUrgencia
    /\ UNCHANGED <<dia, senales, store, retorno, ejecuciones, inicio,
                   ultimo, ant, repetida>>
    /\ UNCHANGED lagvars
    /\ UNCHANGED otros

\* after the loop: conn.commit(), sort, return
CommitScoring ==
    /\ EnScoring
    /\ k = Len(CATEGORIAS) + 1
    /\ scores' = conn.scores
    /\ alertas' = conn.alertas
    /\ retorno' = OrdenarDescendente(resultados)
    /\ k' = 0
    /\ resultados' = <<>>
    /\ conn' = SinConexion
    /\ urg' = SinUrgencia
    /\ paso' = IF paso = "paso_5" THEN "paso_5b" ELSE "inactivo"
    /\ modo' = IF paso = "paso_5" THEN modo ELSE "ninguno"
    /\ ultimo' =
         { u \in ultimo : ~ \E i \in DOMAIN resultados :
               /\ resultados[i].categoria = u.categoria
               /\ resultados[i].fecha = u.fecha }
         \cup { resultados[i] : i \in DOMAIN resultados }
    /\ LET misma == /\ ant.valido
                    /\ ant.entradas = inicio
                    /\ dia = inicio.dia
       IN  /\ repetida' = misma
           /\ ant' = IF misma THEN ant
                     ELSE [valido |-> dia = inicio.dia, entradas |-> inicio,
                           scores |-> conn.scores, alertas |-> conn.alertas]
    /\ corrida' = [estado |-> "completa", fallo |-> "", causa |-> "",
                   dia |-> dia,
                   otras |-> {},
                   actualizadas |->
                       Cardinality({ i \in DOMAIN scores :
                                        conn.scores[i] # scores[i] })]
    /\ UNCHANGED <<dia, senales, tabla_correlaciones, correlaciones,
                   ejecuciones, inicio>>
    /\ UNCHANGED lagvars
    /\ UNCHANGED otros

\* ------------------------------------------------------------------------
\* the other steps of the drivers
\* ------------------------------------------------------------------------
\* paso_5b_resoluciones: calcular_resoluciones_semanales, which reads table
\* scores and writes only table resoluciones
Paso5bResoluciones ==
    /\ paso = "paso_5b"
    /\ paso' = IF modo = "completo" THEN "paso_6" ELSE "paso_7"
    /\ resoluciones' = calcular_resoluciones_semanales(scores, sil_documentos,
                                                       resoluciones, dia)
    /\ UNCHANGED <<dia, senales, store, modo, k, resultados, conn, retorno,
                   urg, ejecuciones, inicio, historia>>
    /\ UNCHANGED lagvars
    /\ UNCHANGED <<escritores, sil_documentos>>

\* paso_6_correlacion_temporal: analizar_todas_categorias
Paso6Correlacion ==
    /\ paso = "paso_6"
    /\ tabla_correlaciones' = TRUE
    /\ \E an \in Analisis :
          correlaciones' = analizar_todas_categorias(correlaciones, 1, an, dia)
    /\ paso' = "paso_7"
    /\ UNCHANGED <<dia, senales, scores, alertas, modo, k, resultados, conn,
                   retorno, urg, ejecuciones, inicio, historia>>
    /\ UNCHANGED lagvars
    /\ UNCHANGED otros

\* paso_7_exportar_dashboard reads the store; generar_reporte follows
Paso7Exportar ==
    /\ paso = "paso_7"
    /\ paso' = "reporte"
    /\ UNCHANGED <<senales, store>>
    /\ AbrirScoring
    /\ UNCHANGED <<dia, modo, urg, ejecuciones, historia>>
    /\ UNCHANGED lagvars
    /\ UNCHANGED otros

\* midnight.  The clock is read by the scoring loop and, right after a
\* batch, by analizar_todas_categorias: a midnight at any other position
\* is seen as one at the start or at the end of a batch.
Tick ==
    /\ dia < MaxDia
    /\ paso \in {"inactivo", "paso_5", "reporte"}
    /\ dia' = dia + 1
    /\ UNCHANGED <<senales, store, modo, paso, k, resultados, conn, retorno,
                   urg, ejecuciones, inicio, historia>>
    /\ UNCHANGED lagvars
    /\ UNCHANGED otros

Next ==
    \/ IniciarPipeline
    \/ Scraping
    \/ IniciarSoloScoring
    \/ IniciarReporte
    \/ ScoreCategoria
    \/ FallaScoring
    \/ CommitScoring
    \/ Paso5bResoluciones
    \/ Paso6Correlacion
    \/ Paso7Exportar
    \/ Tick

Spec == Init /\ [][Next]_vars

\* ------------------------------------------------------------------------
\* The urgency estimator on its own: calcular_score_urgencia_historica
\* applied to the stores, filing counts, scores and dates below
\* ------------------------------------------------------------------------
\* a row of correlaciones as analizar_todas_categorias inserts it
FilaXcorr(cat, lag_optimo, r, p, fecha) ==
    GuardarXcorr(<<>>, cat,
                 [error |-> FALSE, lag_optimo |-> lag_optimo,
                  correlacion_maxima |-> r, p_value_optimo |-> p], fecha)

FilaGranger(cat, fecha) ==
    GuardarGranger(<<>>, cat, GrangerSignificativo, fecha)

\* tables correlaciones: empty; one record, significant or not, below, at
\* and above the cap of its branch; an older and a newer record; a later
\* Granger record, and the record of another category
TablasUrgencia ==
    { <<>>,
      FilaXcorr(CATEGORIAS[1], 3, 5000, 100, 1),
      FilaXcorr(CATEGORIAS[1], 2, 6667, 20, 1),
      FilaXcorr(CATEGORIAS[1], 5, -9000, 0, 1),
      FilaXcorr(CATEGORIAS[1], 1, -35, 300000, 1),
      FilaXcorr(CATEGORIAS[1], 4, 6000, 50000, 1),
      FilaXcorr(CATEGORIAS[1], 4, -8000, 61000, 1),
      FilaXcorr(CATEGORIAS[1], 3, 5000, 100, 1)
          \o FilaXcorr(CATEGORIAS[1], 1, 2000, 300000, 2),
      FilaXcorr(CATEGORIAS[1], 1, 2000, 300000, 1)
          \o FilaGranger(CATEGORIAS[1], 2)
          \o FilaXcorr(CATEGORIAS[2], 3, 5000, 100, 2) }

\* media and trends scores, and filing counts of 14 and of 60 days
SenalesUrgencia ==
    { Par(Esc(mt[1], mt[2], 5000, 0, s[1], s[2]), Esc(5000, 5000, 5000, 0, 1, 4)) :
        mt \in { <<0, 0>>, <<5000, 5000>>, <<5001, 5000>>, <<8000, 6000>>,
                 <<10000, 10000>> },
        s \in { <<0, 0>>, <<0, 4>>, <<1, 4>>, <<1, 7>>, <<3, 4>>, <<4, 4>>,
                <<5, 8>> } }

InitUrgencia ==
    /\ dia \in 1..Len(Fechas)
    /\ senales \in SenalesUrgencia
    /\ tabla_correlaciones = TRUE
    /\ correlaciones \in TablasUrgencia
    /\ scores = <<>>
    /\ alertas = <<>>
    /\ modo = "ninguno"
    /\ paso = "inactivo"
    /\ k = 0
    /\ resultados = <<>>
    /\ conn = SinConexion
    /\ retorno = <<>>
    /\ urg = SinUrgencia
    /\ ejecuciones = 0
    /\ ultimo = {}
    /\ inicio = Entradas(senales, <<>>, 0)
    /\ ant = [valido |-> FALSE, entradas |-> Entradas(senales, <<>>, 0),
              scores |-> <<>>, alertas |-> <<>>]
    /\ repetida = FALSE
    /\ corrida = [estado |-> "ninguna", fallo |-> "", causa |-> "", dia |-> 0,
                  otras |-> {}, actualizadas |-> 0]
    /\ series = SinSeries
    /\ sal = SinSalida
    /\ escritores = SinEscritores
    /\ sil_documentos = SinDocumentos
    /\ resoluciones = <<>>

\* one call of the estimator
EstimarUrgencia ==
    /\ \E cat \in Cats :
          urg' = calcular_score_urgencia_historica(cat, senales[cat].media,
                     senales[cat].trends, correlaciones,
                     senales[cat].sil_reciente, senales[cat].sil_mes, Hoy(dia))
    /\ UNCHANGED <<dia, senales, store, modo, paso, k, resultados, conn,
                   retorno, ejecuciones, inicio, historia>>
    /\ UNCHANGED lagvars
    /\ UNCHANGED otros

\* one call of obtener_prediccion, as paso_7_exportar_dashboard makes for
\* every category
LlamarObtenerPrediccion ==
    /\ \E cat \in Cats :
          sal' = [fn |-> "obtener_prediccion",
                  r |-> obtener_prediccion(correlaciones, cat)]
    /\ UNCHANGED <<dia, senales, store, modo, paso, k, resultados, conn,
                   retorno, urg, ejecuciones, inicio, historia>>
    /\ UNCHANGED series
    /\ UNCHANGED otros

NextUrgencia ==
    \/ EstimarUrgencia
    \/ LlamarObtenerPrediccion

SpecUrgencia == InitUrgencia /\ [][NextUrgencia]_vars

\* ------------------------------------------------------------------------
\* The functions of api/lag.py on their own: cross_correlation,
\* granger_test, detectar_picos and analizar_todas_categorias applied to
\* the series and arguments below
\* ------------------------------------------------------------------------
\* pairs (x, y) of equal length: a periodic series with itself; y = x
\* delayed one day; a series with itself; 14 points; a constant x; 30
\* points with itself; 22 points; no points; and short series with and
\* without a spike
ParesDeSeries ==
    { << <<0,1,0,2,0,1,0,2,0,1,0,2,0,1,0,2>>, <<0,1,0,2,0,1,0,2,0,1,0,2,0,1,0,2>> >>,
      << <<0,0,1,0,3,1,0,0,2,0,0,1,0,0,2,1>>, <<1,0,0,1,0,3,1,0,0,2,0,0,1,0,0,2>> >>,
      << <<0,0,1,0,3,1,0,0,2,0,0,1,0,0,2,1>>, <<0,0,1,0,3,1,0,0,2,0,0,1,0,0,2,1>> >>,
      << <<0,0,1,0,3,1,0,0,2,0,0,1,0,0>>, <<1,0,0,1,0,3,1,0,0,2,0,0,1,0>> >>,
      << <<2,2,2,2,2,2,2,2,2,2,2,2,2,2,2,2>>, <<1,0,0,1,0,3,1,0,0,2,0,0,1,0,0,2>> >>,
      << [f \in 1..VentanaDias |-> (f * f) % 4], [f \in 1..VentanaDias |-> (f * f) % 4] >>,
      << [f \in 1..22 |-> (f * f) % 5], [f \in 1..22 |-> ((f + 3) * f) % 4] >>,
      << <<>>, <<>> >>,
      << <<0,0,0,0,5>>, <<0,0,0,0,5>> >>,
      << <<1,1,9,1>>, <<1,1,9,1>> >>,
      << <<3,3,3,3,3,3>>, <<0,1,0,2,0,1>> >>,
      << <<0,0,0,0,0,0,0,0,0,10>>, <<0,0,0,0,0,0,0,0,0,10>> >> }

\* max_lags of cross_correlation: none, few, the default, and as many as
\* or more than the points of a series
MaxLagsProbados == {-1, 0, 3, CrossCorrelationLags, 16, 17}

\* outcomes of the least-squares fits per lag
OlsF ==
    [lag \in 1..(GrangerMaxLag + 1) |->
        [tipo |-> "f", f |-> IF lag = 2 THEN 61234 ELSE 9000,
         p |-> IF lag = 2 THEN 12000 ELSE 4000000]]

OlsMixto ==
    [lag \in 1..(GrangerMaxLag + 1) |->
        [tipo |-> IF lag = 1 THEN "error" ELSE IF lag = 2 THEN "exacto" ELSE "f",
         f |-> 12000 + lag,
         p |-> IF lag \in {3, 4} THEN 3000000 ELSE 6000000]]

OlsError == [lag \in 1..(GrangerMaxLag + 1) |-> [tipo |-> "error", f |-> 0, p |-> 0]]

OlsExacto == [lag \in 1..(GrangerMaxLag + 1) |-> [tipo |-> "exacto", f |-> 0, p |-> 0]]

\* p-values next to the threshold: 0.0499996 at lag 1, 0.0500004 at lag 2
OlsUmbral ==
    [lag \in 1..(GrangerMaxLag + 1) |->
        [tipo |-> "f", f |-> 30000 + lag,
         p |-> IF lag = 1 THEN 499996 ELSE IF lag = 2 THEN 500004 ELSE 700000]]

\* max_lag of granger_test, umbral_zscore of detectar_picos, and what
\* scipy and lstsq yield: <<max_lag, umbral_zscore, p, ols>>
ArgumentosProbados ==
    { <<GrangerMaxLag, UmbralZscore, 1000, OlsF>>,
      <<GrangerMaxLag + 1, 30, 3000000, OlsMixto>>,
      <<1, 0, 499990, OlsError>>,
      <<0, -10, 500000, OlsExacto>>,
      <<GrangerMaxLag, UmbralZscore, 499996, OlsUmbral>> }

\* dicts {fecha: valor} read from the store
Vacio == <<>>

SoloCeros == [f \in {3, 4, 10} |-> 0]

FueraDeVentana == [f \in {0} |-> 3]

MencionesA == [f \in {0, 2, 3, 5, 8, 9, 12, 15, 16, 20, 23, 24, 27, 30} |-> 1 + (f % 3)]

MencionesB == [f \in 1..VentanaDias |-> 2]

ActividadA == [f \in {4, 5, 7, 10, 11, 14, 17, 18, 22, 25, 26, 29} |-> 1 + ((f - 2) % 3)]

TrendsA == [f \in 1..VentanaDias |-> (f * 7) % 4]

\* <<menciones_medios and trends of each category, actividad_congreso>>
SeriesDelStore ==
    { <<Par(MencionesA, MencionesB), Par(TrendsA, TrendsA), ActividadA>>,
      <<Par(Vacio, MencionesA), Par(TrendsA, Vacio), ActividadA>>,
      <<Par(MencionesA, MencionesB), Par(TrendsA, TrendsA), Vacio>>,
      <<Par(MencionesA, SoloCeros), Par(SoloCeros, TrendsA), ActividadA>>,
      <<Par(FueraDeVentana, MencionesA), Par(TrendsA, FueraDeVentana), ActividadA>>,
      <<Par(Vacio, Vacio), Par(Vacio, Vacio), Vacio>>,
      <<Par(MencionesA, MencionesA), Par(TrendsA, TrendsA), SoloCeros>>,
      <<Par(MencionesB, MencionesA), Par(Vacio, TrendsA), ActividadA>> }

SeriesProbadas ==
    { [x |-> xy[1], y |-> xy[2], max_lags |-> m, max_lag |-> a[1],
       umbral_zscore |-> a[2], menciones_medios |-> [c \in Cats |-> Vacio],
       actividad_congreso |-> Vacio, trends |-> [c \in Cats |-> Vacio],
       p |-> a[3], ols |-> a[4]] :
          xy \in ParesDeSeries, m \in MaxLagsProbados, a \in ArgumentosProbados }
    \cup
    { [x |-> <<>>, y |-> <<>>, max_lags |-> CrossCorrelationLags,
       max_lag |-> a[1], umbral_zscore |-> a[2], menciones_medios |-> d[1],
       actividad_congreso |-> d[3], trends |-> d[2], p |-> a[3],
       ols |-> a[4]] :
          d \in SeriesDelStore, a \in ArgumentosProbados }

InitLag ==
    /\ dia = 1
    /\ senales = [c \in Cats |-> SinTablas]
    /\ tabla_correlaciones = FALSE
    /\ correlaciones = <<>>
    /\ scores = <<>>
    /\ alertas = <<>>
    /\ modo = "ninguno"
    /\ paso = "inactivo"
    /\ k = 0
    /\ resultados = <<>>
    /\ conn = SinConexion
    /\ retorno = <<>>
    /\ urg = SinUrgencia
    /\ ejecuciones = 0
    /\ ultimo = {}
    /\ inicio = Entradas(senales, <<>>, 0)
    /\ ant = [valido |-> FALSE, entradas |-> Entradas(senales, <<>>, 0),
              scores |-> <<>>, alertas |-> <<>>]
    /\ repetida = FALSE
    /\ corrida = [estado |-> "ninguna", fallo |-> "", causa |-> "", dia |-> 0,
                  otras |-> {}, actualizadas |-> 0]
    /\ series \in SeriesProbadas
    /\ sal = SinSalida
    /\ escritores = SinEscritores
    /\ sil_documentos = SinDocumentos
    /\ resoluciones = <<>>

LlamarCrossCorrelation ==
    /\ sal = SinSalida
    /\ sal' = [fn |-> "cross_correlation",
               r |-> cross_correlation(series.x, series.y, series.max_lags, series.p)]
    /\ UNCHANGED <<dia, senales, store, modo, paso, k, resultados, conn,
                   retorno, urg, ejecuciones, inicio, historia, series>>
    /\ UNCHANGED otros

LlamarGrangerTest ==
    /\ sal = SinSalida
    /\ sal' = [fn |-> "granger_test",
               r |-> granger_test(series.x, series.y, series.max_lag, series.ols)]
    /\ UNCHANGED <<dia, senales, store, modo, paso, k, resultados, conn,
                   retorno, urg, ejecuciones, inicio, historia, series>>
    /\ UNCHANGED otros

LlamarDetectarPicos ==
    /\ sal = SinSalida
    /\ sal' = [fn |-> "detectar_picos",
               r |-> detectar_picos(series.x, series.umbral_zscore)]
    /\ UNCHANGED <<dia, senales, store, modo, paso, k, resultados, conn,
                   retorno, urg, ejecuciones, inicio, historia, series>>
    /\ UNCHANGED otros

\* analizar_todas_categorias: init_db, then per category analizar_categoria
\* and the two INSERTs, then commit; it returns the list of the results
LlamarAnalizarTodas ==
    /\ sal = SinSalida
    /\ LET res == [c \in Cats |->
                      analizar_categoria(c, series.menciones_medios[c],
                          series.actividad_congreso, series.trends[c],
                          series.p, series.ols)]
           an == [c \in Cats |->
                     [xcorr |-> res[c].xcorr_medios_congreso,
                      granger |-> MejorGranger(res[c].granger_medios_congreso)]]
       IN  /\ sal' = [fn |-> "analizar_todas_categorias", r |-> res]
           /\ correlaciones' = analizar_todas_categorias(correlaciones, 1, an, dia)
    /\ tabla_correlaciones' = TRUE
    /\ UNCHANGED <<dia, senales, scores, alertas, modo, paso, k, resultados,
                   conn, retorno, urg, ejecuciones, inicio, historia, series>>
    /\ UNCHANGED otros

NextLag ==
    \/ LlamarCrossCorrelation
    \/ LlamarGrangerTest
    \/ LlamarDetectarPicos
    \/ LlamarAnalizarTodas

SpecLag == InitLag /\ [][NextLag]_vars

\* ------------------------------------------------------------------------
\* analizar_todas_categorias run again and again over a store whose series
\* change between the runs, on the same day or a later one
\* ------------------------------------------------------------------------
\* series of the store at a run: both categories analysable; the media
\* series swapped and no trends for the first; no congress activity
SeriesRepetidas ==
    { <<Par(MencionesA, MencionesB), Par(TrendsA, TrendsA), ActividadA>>,
      <<Par(MencionesB, MencionesA), Par(Vacio, TrendsA), ActividadA>>,
      <<Par(MencionesA, MencionesB), Par(TrendsA, TrendsA), Vacio>> }

\* what scipy and lstsq yield at a run
ArgumentosRepetidos == {a \in ArgumentosProbados : a[4] \in {OlsF, OlsMixto}}

InitReanalisis ==
    /\ InitLag
    /\ series.x = <<>>
    /\ \E d \in SeriesRepetidas :
          /\ series.menciones_medios = d[1]
          /\ series.trends = d[2]
          /\ series.actividad_congreso = d[3]
    /\ \E a \in ArgumentosRepetidos : series.p = a[3] /\ series.ols = a[4]

\* a later invocation: the scrapers have renewed the series of the store
\* (or left them as they were), the same day or the next
NuevaEjecucion ==
    /\ sal # SinSalida
    /\ ejecuciones < MaxEjecuciones
    /\ ejecuciones' = ejecuciones + 1
    /\ dia' \in {d \in {dia, dia + 1} : d <= MaxDia}
    /\ \E d \in SeriesRepetidas, a \in ArgumentosRepetidos :
          series' = [series EXCEPT !.menciones_medios = d[1], !.trends = d[2],
                                   !.actividad_congreso = d[3], !.p = a[3],
                                   !.ols = a[4]]
    /\ sal' = SinSalida
    /\ UNCHANGED <<senales, store, modo, paso, k, resultados, conn, retorno,
                   urg, inicio, historia>>
    /\ UNCHANGED otros

NextReanalisis ==
    \/ LlamarAnalizarTodas
    \/ NuevaEjecucion

SpecReanalisis == InitReanalisis /\ [][NextReanalisis]_vars

\* ------------------------------------------------------------------------
\* Two processes running calcular_todos_los_scores on the same store and
\* date.  Each has its own sqlite3 connection (default settings): the first
\* INSERT of a connection opens its transaction and takes the write lock of
\* the database file, which it keeps until commit or until the process
\* ends; a statement of the other connection that needs the lock waits,
\* and raises OperationalError (database is locked) if the wait runs out
\* ------------------------------------------------------------------------
Escritores == {1, 2}

\* pc: the statement the process executes next; k, res, conn: its locals;
\* conflictos: how many of its INSERTs raised IntegrityError
Escritor(e) ==
    [pc |-> "calcular", k |-> 1, senales |-> e, res |-> <<>>,
     conn |-> SinConexion, conflictos |-> 0]

\* rows of today that an earlier batch committed
ScoresPrevios ==
    GuardarScore(
        GuardarScore(<<>>, calcular_score_categoria(CATEGORIAS[1],
            Esc(5000, 5000, 5000, 0, 0, 0), <<>>, 1)),
        calcular_score_categoria(CATEGORIAS[2],
            Esc(5000, 5000, 5000, 0, 0, 0), <<>>, 1))

InitConcurrente ==
    /\ dia = 1
    /\ senales = [c \in Cats |-> SinTablas]
    /\ tabla_correlaciones = TRUE
    /\ correlaciones = <<>>
    /\ scores \in {<<>>, ScoresPrevios}
    /\ alertas = <<>>
    /\ modo = "ninguno"
    /\ paso = "inactivo"
    /\ k = 0
    /\ resultados = <<>>
    /\ conn = SinConexion
    /\ retorno = <<>>
    /\ urg = SinUrgencia
    /\ ejecuciones = 0
    /\ ultimo = {}
    /\ inicio = Entradas(senales, <<>>, 0)
    /\ ant = [valido |-> FALSE, entradas |-> Entradas(senales, <<>>, 0),
              scores |-> <<>>, alertas |-> <<>>]
    /\ repetida = FALSE
    /\ corrida = [estado |-> "ninguna", fallo |-> "", causa |-> "", dia |-> 0,
                  otras |-> {}, actualizadas |-> 0]
    /\ series = SinSeries
    /\ sal = SinSalida
    /\ escritores \in [Escritores -> {Escritor(e) : e \in Escenarios}]
    /\ sil_documentos = SinDocumentos
    /\ resoluciones = <<>>

\* the other connection is inside a transaction
Bloqueado(w) == \E v \in Escritores \ {w} : escritores[v].conn # SinConexion

\* what connection w sees: its pending writes over the committed tables
Vista(w) ==
    IF escritores[w].conn # SinConexion THEN escritores[w].conn
    ELSE [scores |-> scores, alertas |-> alertas]

SoloEscritores ==
    UNCHANGED <<dia, senales, tabla_correlaciones, correlaciones, modo, paso,
                k, resultados, conn, retorno, urg, ejecuciones, inicio,
                historia, series, sal, sil_documentos, resoluciones>>

\* resultado = calcular_score_categoria(cat_clave)
CalcularEscritor(w) ==
    LET yo == escritores[w]
        cat == CATEGORIAS[yo.k]
    IN  /\ yo.pc = "calcular"
        /\ ~FallaCategoria(yo.senales[cat], tabla_correlaciones)
        /\ escritores' = [escritores EXCEPT ![w] =
               [yo EXCEPT !.pc = "insert",
                          !.res = calcular_score_categoria(cat,
                                      yo.senales[cat], correlaciones, dia)]]
        /\ UNCHANGED <<scores, alertas>>
        /\ SoloEscritores

\* it raises: the process ends, its transaction is rolled back
FallaEscritor(w) ==
    LET yo == escritores[w]
    IN  /\ yo.pc = "calcular"
        /\ FallaCategoria(yo.senales[CATEGORIAS[yo.k]], tabla_correlaciones)
        /\ escritores' = [escritores EXCEPT ![w] =
               [yo EXCEPT !.pc = "abortado", !.conn = SinConexion]]
        /\ UNCHANGED <<scores, alertas>>
        /\ SoloEscritores

\* INSERT INTO scores: the row, or IntegrityError when the key exists
InsertEscritor(w) ==
    LET yo == escritores[w]
        v == Vista(w)
    IN  /\ yo.pc = "insert"
        /\ ~Bloqueado(w)
        /\ escritores' = [escritores EXCEPT ![w] =
               IF ExisteScore(v.scores, yo.res.categoria, yo.res.fecha)
               THEN [yo EXCEPT !.pc = "update", !.conn = v,
                               !.conflictos = yo.conflictos + 1]
               ELSE [yo EXCEPT !.pc = "alerta",
                               !.conn = [v EXCEPT !.scores =
                                            GuardarScore(v.scores, yo.res)]]]
        /\ UNCHANGED <<scores, alertas>>
        /\ SoloEscritores

\* the wait for the lock runs out: OperationalError, which nothing catches
EsperaAgotada(w) ==
    LET yo == escritores[w]
    IN  /\ yo.pc = "insert"
        /\ Bloqueado(w)
        /\ escritores' = [escritores EXCEPT ![w] =
               [yo EXCEPT !.pc = "abortado", !.conn = SinConexion]]
        /\ UNCHANGED <<scores, alertas>>
        /\ SoloEscritores

\* except sqlite3.IntegrityError: UPDATE scores SET ... WHERE categoria, fecha
UpdateEscritor(w) ==
    LET yo == escritores[w]
    IN  /\ yo.pc = "update"
        /\ escritores' = [escritores EXCEPT ![w] =
               [yo EXCEPT !.pc = "alerta",
                          !.conn = [yo.conn EXCEPT !.scores =
                                       GuardarScore(yo.conn.scores, yo.res)]]]
        /\ UNCHANGED <<scores, alertas>>
        /\ SoloEscritores

\* INSERT INTO alertas if verde; next category
AlertaEscritor(w) ==
    LET yo == escritores[w]
    IN  /\ yo.pc = "alerta"
        /\ escritores' = [escritores EXCEPT ![w] =
               [yo EXCEPT !.pc = IF yo.k = Len(CATEGORIAS) THEN "commit"
                                 ELSE "calcular",
                          !.k = yo.k + 1,
                          !.conn = [yo.conn EXCEPT !.alertas =
                                       GenerarAlerta(yo.conn.alertas, yo.res, dia)]]]
        /\ UNCHANGED <<scores, alertas>>
        /\ SoloEscritores

\* conn.commit(); conn.close()
CommitEscritor(w) ==
    LET yo == escritores[w]
    IN  /\ yo.pc = "commit"
        /\ scores' = yo.conn.scores
        /\ alertas' = yo.conn.alertas
        /\ escritores' = [escritores EXCEPT ![w] =
               [yo EXCEPT !.pc = "fin", !.conn = SinConexion]]
        /\ SoloEscritores

NextConcurrente ==
    \E w \in Escritores :
        \/ CalcularEscritor(w)
        \/ FallaEscritor(w)
        \/ InsertEscritor(w)
        \/ EsperaAgotada(w)
        \/ UpdateEscritor(w)
        \/ AlertaEscritor(w)
        \/ CommitEscritor(w)

SpecConcurrente == InitConcurrente /\ [][NextConcurrente]_vars

\* ------------------------------------------------------------------------
\* The consumers of table scores on their own: the resolution tracker and
\* the score-history export applied to the tables below, on the days below
\* ------------------------------------------------------------------------
\* a row of scores with the given total
FilaDe(cat, fecha, score_total) ==
    FilaScore([categoria |-> cat, score_total |-> score_total,
               score_media |-> score_total, score_trends |-> score_total,
               score_congreso |-> score_total, score_mananera |-> score_total,
               score_urgencia |-> score_total,
               color |-> asignar_color(score_total),
               factor_calendario |-> FactorReceso, fecha |-> fecha])

\* tables scores: none; a week where the first category averages 49.9957
\* and the second has no row; a computed 0 next to a 75; the thresholds 50
\* and 49.99, and a second week; the second category with a 0 where the
\* first has no row; rows of the second week only
ScoresProbados ==
    { <<>>,
      [f \in 1..DiasPorSemana |->
          FilaDe(CATEGORIAS[1], f, IF f = 4 THEN 4997 ELSE 5000)],
      << FilaDe(CATEGORIAS[1], 2, 0), FilaDe(CATEGORIAS[2], 2, 7500) >>,
      << FilaDe(CATEGORIAS[1], 3, 5000), FilaDe(CATEGORIAS[2], 3, 4999),
         FilaDe(CATEGORIAS[1], 9, 8000) >>,
      << FilaDe(CATEGORIAS[2], 5, 0), FilaDe(CATEGORIAS[2], 6, 0),
         FilaDe(CATEGORIAS[1], 12, 3000), FilaDe(CATEGORIAS[2], 12, 10000) >>,
      << FilaDe(CATEGORIAS[1], 8, 7000), FilaDe(CATEGORIAS[1], 10, 2000) >> }

\* filings per category and week (week 0 and before: earlier history)
DocumentosProbados ==
    { [c \in Cats |-> <<>>],
      Par([w \in {1, 2} |-> IF w = 1 THEN 3 ELSE 1], <<>>),
      Par([w \in {0, 1} |-> 2], [w \in {1} |-> 1]),
      Par([w \in {-1, 0, 1} |-> IF w = 1 THEN 4 ELSE 1], [w \in {2} |-> 5]) }

\* today: before the first Sunday, on it, and in and at the end of the
\* second week
DiasProbados == {6, 7, 13, 14}

InitResoluciones ==
    /\ dia \in DiasProbados
    /\ senales = [c \in Cats |-> SinTablas]
    /\ tabla_correlaciones = TRUE
    /\ correlaciones = <<>>
    /\ scores \in ScoresProbados
    /\ alertas = <<>>
    /\ modo = "ninguno"
    /\ paso = "inactivo"
    /\ k = 0
    /\ resultados = <<>>
    /\ conn = SinConexion
    /\ retorno = <<>>
    /\ urg = SinUrgencia
    /\ ejecuciones = 0
    /\ ultimo = {}
    /\ inicio = Entradas(senales, <<>>, 0)
    /\ ant = [valido |-> FALSE, entradas |-> Entradas(senales, <<>>, 0),
              scores |-> <<>>, alertas |-> <<>>]
    /\ repetida = FALSE
    /\ corrida = [estado |-> "ninguna", fallo |-> "", causa |-> "", dia |-> 0,
                  otras |-> {}, actualizadas |-> 0]
    /\ series = SinSeries
    /\ sal = SinSalida
    /\ escritores = SinEscritores
    /\ sil_documentos \in DocumentosProbados
    /\ resoluciones = <<>>

\* calcular_resoluciones_semanales()
LlamarResoluciones ==
    /\ ejecuciones < MaxEjecuciones
    /\ ejecuciones' = ejecuciones + 1
    /\ resoluciones' = calcular_resoluciones_semanales(scores, sil_documentos,
                                                       resoluciones, dia)
    /\ sal' = [fn |-> "calcular_resoluciones_semanales",
               r |-> Cardinality({Semana(scores[i].fecha) : i \in
                         {j \in DOMAIN scores :
                             Semana(scores[j].fecha) * DiasPorSemana <= dia}})]
    /\ UNCHANGED <<dia, senales, store, modo, paso, k, resultados, conn,
                   retorno, urg, inicio, historia, series, escritores,
                   sil_documentos>>

\* obtener_historial_scores_todas()
LlamarHistorial ==
    /\ sal.fn # "obtener_historial_scores_todas"
    /\ sal' = [fn |-> "obtener_historial_scores_todas",
               r |-> obtener_historial_scores_todas(scores)]
    /\ UNCHANGED <<dia, senales, store, modo, paso, k, resultados, conn,
                   retorno, urg, ejecuciones, inicio, historia, series>>
    /\ UNCHANGED otros

\* a later batch of scores and filings is in the store
NuevosScores ==
    /\ sal.fn = "calcular_resoluciones_semanales"
    /\ scores' \in ScoresProbados \ {scores}
    /\ sil_documentos' \in DocumentosProbados
    /\ sal' = SinSalida
    /\ UNCHANGED <<dia, senales, tabla_correlaciones, correlaciones, alertas,
                   modo, paso, k, resultados, conn, retorno, urg, ejecuciones,
                   inicio, historia, series, escritores, resoluciones>>

NextResoluciones ==
    \/ LlamarResoluciones
    \/ LlamarHistorial
    \/ NuevosScores

SpecResoluciones == InitResoluciones /\ [][NextResoluciones]_vars

\* ------------------------------------------------------------------------
\* Properties
\* ------------------------------------------------------------------------
\* every result computed or returned so far, and every row written
Computados ==
    { resultados[i] : i \in DOMAIN resultados }
    \cup { retorno[i] : i \in DOMAIN retorno }

Filas ==
    { scores[i] : i \in DOMAIN scores }
    \cup { conn.scores[i] : i \in DOMAIN conn.scores }

\* C1: with every provider score in [0,100] and any urgency the estimator
\* returns, the score_total of every result of calcular_score_categoria and
\* of every row of table scores lies in [0,100].
C1_ScoreTotalEnRango ==
    /\ \A r \in Computados :
          /\ r.score_urgencia \in 0..10000
          /\ r.score_total \in 0..10000
    /\ \A f \in Filas : f.score_total \in 0..10000

\* a stored row computed from four provider scores of 100 and a positive
\* urgency: the top of the range
C1_Testigo ==
    \E i \in DOMAIN scores :
        /\ scores[i].score_media = 10000
        /\ scores[i].score_trends = 10000
        /\ scores[i].score_congreso = 10000
        /\ scores[i].score_mananera = 10000
        /\ scores[i].score_urgencia >= 8000
        /\ scores[i].score_total >= 9700

\* C2: in every result and in every row of table scores, inserted or
\* updated, color is verde iff score_total >= 70, amarillo iff
\* 40 <= score_total < 70, rojo iff score_total < 40.
C2_ColorFuncionDelScore ==
    LET ColorSegunUmbrales(r) ==
            /\ r.color \in {"verde", "amarillo", "rojo"}
            /\ r.color = "verde" <=> r.score_total >= 7000
            /\ r.color = "amarillo" <=>
                   (r.score_total >= 4000 /\ r.score_total < 7000)
            /\ r.color = "rojo" <=> r.score_total < 4000
    IN  /\ \A r \in Computados : ColorSegunUmbrales(r)
        /\ \A f \in Filas : ColorSegunUmbrales(f)

\* a committed row of 69.99, amarillo, that the running batch has updated
\* to 70.00, verde
C2_Testigo ==
    \E i \in DOMAIN scores \cap DOMAIN conn.scores :
        /\ scores[i].score_total = 6999
        /\ scores[i].color = "amarillo"
        /\ conn.scores[i].score_total = 7000
        /\ conn.scores[i].color = "verde"

C4_RetornoOrdenado ==
    retorno # <<>> =>
        /\ Len(retorno) = Len(CATEGORIAS)
        /\ \A c \in Cats :
              Cardinality({ i \in DOMAIN retorno : retorno[i].categoria = c }) = 1
        /\ \A i \in 1..(Len(retorno) - 1) :
              retorno[i].score_total >= retorno[i + 1].score_total

\* a returned list whose order is not the order of the registry
C4_Testigo ==
    /\ Len(retorno) = Len(CATEGORIAS)
    /\ retorno[1].categoria = CATEGORIAS[2]
    /\ retorno[1].score_total > retorno[2].score_total

\* C5: table scores holds at most one row per (categoria, fecha), and the
\* row of a key is the result of the most recent completed run for that key
\* (a run for a key that has a row updates the row in place).
C5_UnaFilaPorClave ==
    LET UnaFilaPorClave(tabla) ==
            \A i, j \in DOMAIN tabla :
                (/\ tabla[i].categoria = tabla[j].categoria
                 /\ tabla[i].fecha = tabla[j].fecha) => i = j
    IN  /\ UnaFilaPorClave(scores)
        /\ UnaFilaPorClave(conn.scores)
        /\ \A u \in ultimo : \E i \in DOMAIN scores : scores[i] = FilaScore(u)
        /\ \A i \in DOMAIN scores : \E u \in ultimo : scores[i] = FilaScore(u)

\* a completed run has changed, in place, the rows of both categories
C5_Testigo ==
    /\ corrida.estado = "completa"
    /\ corrida.actualizadas = Len(CATEGORIAS)
    /\ Len(scores) = Len(CATEGORIAS)

\* C6: a second run of calcular_todos_los_scores on the same date with the
\* same inputs leaves tables scores and alertas as the first run left them.
C6_Idempotente ==
    repetida => (scores = ant.scores /\ alertas = ant.alertas)

\* C7: when the score of a category fails, the other categories are still
\* computed and their rows persisted by that run.
C7_LoteTolerante ==
    corrida.estado = "abortada" =>
        \A c \in corrida.otras :
            \E i \in DOMAIN scores :
                scores[i].categoria = c /\ scores[i].fecha = corrida.dia

\* C8: no score is computed, nor written, for a category while the data
\* source of one of its providers errors.
C8_FallaNoEsCero ==
    LET ErrorProveedor(e) ==
            \/ e.media = Falla
            \/ e.trends = Falla
            \/ e.congreso = Falla
            \/ e.mananera \in {Falla, ErrorOperacional}
    IN  \A i \in DOMAIN resultados :
            ~ErrorProveedor(senales[resultados[i].categoria])

\* C9: the estimator returns 0 when the latest record is not significant
\* (or absent) and the filings do not accelerate (recent count not above
\* the fortnightly average).
C9_SinEvidenciaSinUrgencia ==
    (/\ urg.categoria # ""
     /\ ~urg.fila_significativa
     /\ 4 * urg.sil_reciente <= urg.sil_mes)
        => urg.urgencia = 0

\* C10: the calendar component is min(pressure*0.8, 100) when the factor is
\* >= 1.5 and min(pressure*0.4, 50) when it is in [1.0, 1.5), both only with
\* pressure > 50; in every other case it is 0.
C10_ComponenteCalendario ==
    urg.calendario_score =
        IF urg.factor_cal >= 10 /\ urg.presion_real > 50000
        THEN IF urg.factor_cal >= 15
             THEN Min(urg.presion_real * 8, 1000000)
             ELSE Min(urg.presion_real * 4, 500000)
        ELSE 0

\* C11: the correlation component is min(|coeficiente|*150, 100) when the
\* latest xcorr_medios_congreso record of the category is significant,
\* min(|coeficiente|*50, 30) when it exists and is not, 0 without a record.
C11_ComponenteCorrelacion ==
    urg.categoria # "" =>
        LET filas == { i \in DOMAIN correlaciones :
                          /\ correlaciones[i].categoria = urg.categoria
                          /\ correlaciones[i].tipo_analisis = "xcorr_medios_congreso" }
        IN  IF filas = {} THEN urg.corr_score = 0
            ELSE LET ult == CHOOSE i \in filas : \A j \in filas :
                                correlaciones[j].fecha_analisis
                                    <= correlaciones[i].fecha_analisis
                     r == Abs(correlaciones[ult].coeficiente)
                 IN  IF correlaciones[ult].significativo = 1
                     THEN urg.corr_score = Min(r * 150, 1000000)
                     ELSE urg.corr_score = Min(r * 50, 300000)

\* the estimator has read a record that is not significant, newer than a
\* significant one, and has discounted it: 0.2 * 50 = 10
C11_Testigo ==
    /\ urg.categoria = CATEGORIAS[1]
    /\ Len(correlaciones) = 2
    /\ correlaciones[1].significativo = 1
    /\ ~urg.fila_significativa
    /\ urg.corr_score = 100000

\* C12: the filing component is min(acceleration*40, 100) with acceleration
\* = count14 / (count60 * 14/60), and 0 when count60 is 0.
C12_ComponenteSil ==
    urg.categoria # "" =>
        IF urg.sil_mes = 0 THEN urg.sil_score.num = 0
        ELSE 14 * urg.sil_score.num * urg.sil_mes
                 = urg.sil_score.den
                     * Min(60 * urg.sil_reciente * 40, 100 * 14 * urg.sil_mes)

\* C13: the estimator returns a value in [0,100] equal to 0.40*correlation
\* + 0.40*velocity + 0.20*calendar rounded to 2 decimals, each component in
\* [0,100].
C13_UrgenciaCompuesta ==
    urg.categoria # "" =>
        LET den == urg.sil_score.den
            exacta == (4 * urg.corr_score + 2 * urg.calendario_score) * den
                        + 4 * urg.sil_score.num * 10000
        IN  /\ urg.corr_score \in 0..1000000
            /\ den > 0
            /\ urg.sil_score.num >= 0
            /\ urg.sil_score.num <= 100 * den
            /\ urg.calendario_score \in 0..1000000
            /\ urg.urgencia \in 0..10000
            /\ 2 * Abs(1000 * den * urg.urgencia - exacta) <= 1000 * den

\* the three components at their largest: 100, 100 and 80 give 96
C13_Testigo ==
    /\ urg.corr_score = 1000000
    /\ urg.sil_score.num = 100 * urg.sil_score.den
    /\ urg.calendario_score = 800000
    /\ urg.urgencia = 9600

\* C14: in a full pipeline run the correlation engine writes its records
\* before the scoring engine reads them, so the scores the run exports are
\* based on the records available after the run's correlation analysis.
C14_FasesEnOrden ==
    (modo = "completo" /\ paso = "reporte" /\ k = 1) =>
        \A i \in DOMAIN scores :
            scores[i].fecha = inicio.dia =>
                LET e == inicio.senales[scores[i].categoria]
                    u == calcular_score_urgencia_historica(scores[i].categoria,
                             e.media, e.trends, inicio.correlaciones,
                             e.sil_reciente, e.sil_mes, Hoy(inicio.dia))
                IN  scores[i].score_urgencia = u.urgencia

\* C15: on a store where no correlation analysis was ever persisted (no
\* table correlaciones) the estimator takes the correlation as absent and
\* returns a value, so the scoring step of the first full run completes.
C15_SinCorrelacionesSinFalla ==
    ~(corrida.estado = "abortada" /\ corrida.causa = "correlaciones")

\* C16: cross_correlation reports as optimal lag the positive-lag entry
\* (lag in 1..max_lags) with the greatest |correlation|, the lowest such lag
\* on ties, with the correlation and p-value of that entry, and reports
\* lag 0, correlation 0, p 1 only when max_lags leaves no positive lag;
\* every xcorr_medios_congreso record that analizar_todas_categorias
\* persists has lag_optimo >= 1
C16_LagOptimoPositivo ==
    /\ (sal.fn = "cross_correlation" /\ ~sal.r.error) =>
          LET cs == sal.r.correlaciones
              pos == {i \in DOMAIN cs : cs[i].lag >= 1}
          IN  /\ \A i \in DOMAIN cs : cs[i].lag = i - series.max_lags - 1
              /\ IF series.max_lags >= 1
                 THEN \E i \in pos :
                        /\ sal.r.lag_optimo = cs[i].lag
                        /\ sal.r.lag_optimo \in 1..series.max_lags
                        /\ sal.r.correlacion_maxima = cs[i].correlacion
                        /\ sal.r.p_value_optimo = cs[i].p_value
                        /\ \A j \in pos :
                              /\ Abs(cs[j].correlacion) <= Abs(cs[i].correlacion)
                              /\ cs[j].lag < cs[i].lag =>
                                    Abs(cs[j].correlacion) < Abs(cs[i].correlacion)
                 ELSE /\ sal.r.lag_optimo = 0
                      /\ sal.r.correlacion_maxima = 0
                      /\ sal.r.p_value_optimo = 1000000
    /\ \A i \in DOMAIN correlaciones :
          correlaciones[i].tipo_analisis = "xcorr_medios_congreso" =>
              correlaciones[i].lag_optimo >= 1

\* a call where a higher positive lag ties with the reported one and an
\* entry of lag <= 0 is at least as strong as it
C16_Testigo ==
    /\ sal.fn = "cross_correlation"
    /\ ~sal.r.error
    /\ sal.r.correlacion_maxima # 0
    /\ \E i, j \in DOMAIN sal.r.correlaciones :
          /\ sal.r.correlaciones[i].lag > sal.r.lag_optimo
          /\ Abs(sal.r.correlaciones[i].correlacion) = Abs(sal.r.correlacion_maxima)
          /\ sal.r.correlaciones[j].lag <= 0
          /\ Abs(sal.r.correlaciones[j].correlacion) >= Abs(sal.r.correlacion_maxima)

\* C17: cross_correlation(x, x) of a non-constant series with itself, with
\* the default max_lags, has correlation 1.0 at its lag-0 entry, which no
\* entry exceeds in absolute value, and reports as optimal a positive lag
\* (1..max_lags), lag 0 not being a candidate
C17_AutocorrelacionLagPositivo ==
    (/\ sal.fn = "cross_correlation"
     /\ ~sal.r.error
     /\ series.x = series.y
     /\ \E i, j \in DOMAIN series.x : series.x[i] # series.x[j]
     /\ series.max_lags = CrossCorrelationLags) =>
        /\ \A i \in DOMAIN sal.r.correlaciones :
              /\ sal.r.correlaciones[i].lag = 0 =>
                    sal.r.correlaciones[i].correlacion = 10000
              /\ Abs(sal.r.correlaciones[i].correlacion) <= 10000
        /\ sal.r.lag_optimo \in 1..CrossCorrelationLags

\* a series with itself whose best positive lag is weaker than lag 0
C17_Testigo ==
    /\ sal.fn = "cross_correlation"
    /\ ~sal.r.error
    /\ series.x = series.y
    /\ \E i, j \in DOMAIN series.x : series.x[i] # series.x[j]
    /\ series.max_lags = CrossCorrelationLags
    /\ sal.r.lag_optimo >= 1
    /\ Abs(sal.r.correlacion_maxima) < 10000
    /\ \E i \in DOMAIN sal.r.correlaciones :
          /\ sal.r.correlaciones[i].lag = 0
          /\ sal.r.correlaciones[i].correlacion = 10000

\* C17 as stated: cross_correlation(x, x) of a non-constant series with
\* itself, with the default max_lags, reports optimal lag 0 with a
\* correlation of about 1.0 (0.99 or more)
C17_AutocorrelacionLagCero ==
    (/\ sal.fn = "cross_correlation"
     /\ ~sal.r.error
     /\ series.x = series.y
     /\ \E i, j \in DOMAIN series.x : series.x[i] # series.x[j]
     /\ series.max_lags = CrossCorrelationLags) =>
        /\ sal.r.lag_optimo = 0
        /\ sal.r.correlacion_maxima >= 9900

\* C18: for every pair of equal-length series and every max_lag / max_lags,
\* granger_test and cross_correlation return a structured result and never
\* raise: granger_test the insufficient-data result (error, no resultados)
\* when the series has fewer than max_lag + min_observaciones points,
\* cross_correlation the insufficient-data result when the series is
\* shorter than min_observaciones, whatever max_lags is
C18_NuncaLanza ==
    /\ sal.fn \in {"granger_test", "cross_correlation"} => ~sal.r.excepcion
    /\ (/\ sal.fn = "granger_test"
        /\ Len(series.y) < series.max_lag + MinObservaciones) =>
          /\ sal.r.error
          /\ sal.r.mensaje = "Insuficientes observaciones"
          /\ sal.r.resultados = <<>>
    /\ (/\ sal.fn = "cross_correlation"
        /\ Len(series.x) < MinObservaciones) =>
          /\ sal.r.error
          /\ sal.r.mensaje = "Insuficientes observaciones"

\* C19: when the media or the congress series of a category is all zeros
\* in the window, analizar_categoria yields the empty-series result for
\* Granger and for the media-congress cross-correlation, and no record of
\* those types is persisted for the category in that run; when the trends
\* or the congress series is all zeros, it yields the empty-series result
\* for the trends-congress cross-correlation, of which no record is
\* persisted either
C19_SeriesVaciasSinRegistro ==
    sal.fn = "analizar_todas_categorias" =>
        LET TodoCeros(d) ==
                \A f \in DOMAIN d \cap (1..VentanaDias) : d[f] = 0
            Vacias == [error |-> TRUE, excepcion |-> FALSE,
                       mensaje |-> "Series vacías"]
            Persistidos(c, tipo) ==
                {i \in DOMAIN correlaciones :
                    /\ correlaciones[i].categoria = c
                    /\ correlaciones[i].tipo_analisis = tipo}
        IN  \A c \in Cats :
              /\ (\/ TodoCeros(series.menciones_medios[c])
                  \/ TodoCeros(series.actividad_congreso)) =>
                    /\ sal.r[c].granger_medios_congreso = Vacias
                    /\ sal.r[c].xcorr_medios_congreso = Vacias
                    /\ Persistidos(c, "granger_medios_congreso") = {}
                    /\ Persistidos(c, "xcorr_medios_congreso") = {}
              /\ (\/ TodoCeros(series.trends[c])
                  \/ TodoCeros(series.actividad_congreso)) =>
                    /\ sal.r[c].xcorr_trends_congreso = Vacias
                    /\ Persistidos(c, "xcorr_trends_congreso") = {}

\* a run where the media series of the first category has a value but none
\* in the window, nothing is persisted for it, and both records of the
\* second category are
C19_Testigo ==
    /\ sal.fn = "analizar_todas_categorias"
    /\ DOMAIN series.menciones_medios[CATEGORIAS[1]] # {}
    /\ sal.r[CATEGORIAS[1]].xcorr_medios_congreso.error
    /\ sal.r[CATEGORIAS[1]].xcorr_medios_congreso.mensaje = "Series vacías"
    /\ ~sal.r[CATEGORIAS[1]].xcorr_trends_congreso.error
    /\ Len(correlaciones) = 2
    /\ \A i \in DOMAIN correlaciones :
          correlaciones[i].categoria = CATEGORIAS[2]

\* C20: detectar_picos returns, in ascending index order, exactly the
\* indices whose population z-score (value - mean)/std is >= the threshold
\* (with d_i = n*value_i - sum and Q = sum of d_i^2, z_i = d_i*sqrt(n/Q)),
\* and the empty list when the series has fewer than 5 points or is
\* constant
C20_PicosPorZscore ==
    sal.fn = "detectar_picos" =>
        LET s == series.x
            n == Len(s)
            u == series.umbral_zscore
            d == [i \in 1..n |-> n * s[i] - Suma(s)]
            Q == Suma([i \in 1..n |-> d[i] * d[i]])
            Pico(i) ==
                IF u >= 0
                THEN d[i] >= 0 /\ 100 * n * d[i] * d[i] >= u * u * Q
                ELSE d[i] >= 0 \/ 100 * n * d[i] * d[i] <= u * u * Q
            constante == \A i, j \in 1..n : s[i] = s[j]
        IN  /\ \A j, l \in DOMAIN sal.r :
                  j < l => sal.r[j].indice < sal.r[l].indice
            /\ \A j \in DOMAIN sal.r :
                  /\ sal.r[j].indice + 1 \in 1..n
                  /\ sal.r[j].valor = s[sal.r[j].indice + 1]
            /\ {sal.r[j].indice + 1 : j \in DOMAIN sal.r}
                  = IF n < 5 \/ constante THEN {}
                    ELSE {i \in 1..n : Pico(i)}

\* the one value of a 5-point series whose z-score is exactly the
\* threshold 2.0 is flagged
C20_Testigo ==
    /\ sal.fn = "detectar_picos"
    /\ series.umbral_zscore = UmbralZscore
    /\ Len(series.x) = 5
    /\ Len(sal.r) = 1
    /\ sal.r[1].indice = 4
    /\ sal.r[1].z_score = 200

\* C21: after analizar_todas_categorias has run, the record stored for
\* (categoria, tipo_analisis, today) carries the lag, coefficient, p-value
\* and significance that this run computed, also when a record of that key
\* existed before the run, and no key is stored twice
C21_ConflictoActualiza ==
    /\ \A i, j \in DOMAIN correlaciones :
          (/\ correlaciones[i].categoria = correlaciones[j].categoria
           /\ correlaciones[i].tipo_analisis = correlaciones[j].tipo_analisis
           /\ correlaciones[i].fecha_analisis = correlaciones[j].fecha_analisis)
              => i = j
    /\ sal.fn = "analizar_todas_categorias" =>
          \A c \in Cats :
              LET x == sal.r[c].xcorr_medios_congreso
                  g == MejorGranger(sal.r[c].granger_medios_congreso)
              IN  /\ ~x.error =>
                        \E i \in DOMAIN correlaciones :
                            /\ correlaciones[i].categoria = c
                            /\ correlaciones[i].tipo_analisis = "xcorr_medios_congreso"
                            /\ correlaciones[i].fecha_analisis = dia
                            /\ correlaciones[i].lag_optimo = x.lag_optimo
                            /\ correlaciones[i].coeficiente = x.correlacion_maxima
                            /\ correlaciones[i].p_value = x.p_value_optimo
                  /\ ~g.error =>
                        \E i \in DOMAIN correlaciones :
                            /\ correlaciones[i].categoria = c
                            /\ correlaciones[i].tipo_analisis = "granger_medios_congreso"
                            /\ correlaciones[i].fecha_analisis = dia
                            /\ correlaciones[i].lag_optimo = g.lag
                            /\ correlaciones[i].coeficiente = g.f_statistic
                            /\ correlaciones[i].p_value = g.p_value
                            /\ correlaciones[i].significativo
                                   = IF g.significativo THEN 1 ELSE 0

\* C22: with two scoring batches writing for the same date, in every
\* interleaving of their statements, neither table scores nor what a
\* connection sees ever holds two rows of one (categoria, fecha); each row
\* of the date is, whole, what was stored before or the result one of the
\* two processes computed for its category; and once processes have
\* committed, it is the result of one that committed
C22_EscritoresConcurrentes ==
    LET SinDuplicados(t) ==
            \A i, j \in DOMAIN t :
                (t[i].categoria = t[j].categoria /\ t[i].fecha = t[j].fecha)
                    => i = j
        Resultado(w, cat) ==
            FilaScore(calcular_score_categoria(cat, escritores[w].senales[cat],
                                               correlaciones, dia))
        Terminados == {w \in Escritores : escritores[w].pc \in {"fin", "abortado"}}
        Confirmados == {w \in Escritores : escritores[w].pc = "fin"}
    IN  /\ SinDuplicados(scores)
        /\ \A w \in Escritores :
              escritores[w].conn # SinConexion =>
                  SinDuplicados(escritores[w].conn.scores)
        /\ \A i \in DOMAIN scores :
              \/ scores[i] \in {ScoresPrevios[j] : j \in DOMAIN ScoresPrevios}
              \/ \E w \in Escritores :
                    scores[i] = Resultado(w, scores[i].categoria)
        /\ (Terminados = Escritores /\ Confirmados # {}) =>
              /\ \A c \in Cats : ExisteScore(scores, c, dia)
              /\ \A i \in DOMAIN scores :
                    \E w \in Confirmados :
                        scores[i] = Resultado(w, scores[i].categoria)

\* both processes committed, the second after the first: each of its
\* INSERTs met the row of the first and fell back to the UPDATE, and the
\* rows stored are its results, which differ from those of the first
C22_Testigo ==
    /\ DOMAIN escritores = Escritores
    /\ escritores[1].pc = "fin"
    /\ escritores[2].pc = "fin"
    /\ escritores[1].conflictos = 0
    /\ escritores[2].conflictos = Len(CATEGORIAS)
    /\ Len(scores) = Len(CATEGORIAS)
    /\ \A i \in DOMAIN scores :
          /\ scores[i] = FilaScore(calcular_score_categoria(scores[i].categoria,
                 escritores[2].senales[scores[i].categoria], correlaciones, dia))
          /\ scores[i] # FilaScore(calcular_score_categoria(scores[i].categoria,
                 escritores[1].senales[scores[i].categoria], correlaciones, dia))

\* C23: no consumer of stored scores treats an absent score record as a
\* computed score of 0: where a category has no row on a date of the
\* score-history export, its entry differs from the entry a row with
\* score_total 0 gets; where a category has no row in a week the
\* resolution tracker has just processed, the resolution row differs from
\* the row written when the category has a row with score_total 0 in that
\* week
C23_AusenteNoEsCero ==
    /\ sal.fn = "obtener_historial_scores_todas" =>
          \A c \in Cats : \A j \in DOMAIN sal.r.fechas :
              (~ExisteScore(scores, c, sal.r.fechas[j])) =>
                  sal.r.categorias[c][j] #
                      obtener_historial_scores_todas(
                          Append(scores, FilaDe(c, sal.r.fechas[j], 0))
                      ).categorias[c][j]
    /\ sal.fn = "calcular_resoluciones_semanales" =>
          \A c \in Cats : \A i \in DOMAIN resoluciones :
              (/\ resoluciones[i].categoria = c
               /\ resoluciones[i].semana * DiasPorSemana <= dia
               /\ \E r \in DOMAIN scores :
                     Semana(scores[r].fecha) = resoluciones[i].semana
               /\ \A r \in DOMAIN scores :
                     scores[r].categoria = c =>
                         Semana(scores[r].fecha) # resoluciones[i].semana) =>
                  resoluciones[i] #
                      Resolucion(Append(scores,
                                     FilaDe(c, resoluciones[i].semana * DiasPorSemana, 0)),
                                 sil_documentos, c, resoluciones[i].semana, dia)

\* C24: calcular_todos_los_scores appends an alert for a category exactly
\* when the score computed for it is in the top tier: every row of alertas
\* is verde with a score >= 70; a step never changes or removes an existing
\* row; rows are added only by the commit of a batch, one per verde result
\* of that batch, in order, with the category and score_total of that
\* result, and none for an amarillo or rojo result
C24_AlertaSoloVerde ==
    /\ [](\A i \in DOMAIN alertas :
             /\ alertas[i].color = "verde"
             /\ alertas[i].score >= UmbralVerde * 100)
    /\ [][/\ Len(alertas') >= Len(alertas)
          /\ SubSeq(alertas', 1, Len(alertas)) = alertas
          /\ alertas' # alertas => (EnScoring /\ k = Len(CATEGORIAS) + 1)
          /\ (EnScoring /\ k = Len(CATEGORIAS) + 1 /\ k' = 0) =>
               LET nuevas == SubSeq(alertas', Len(alertas) + 1, Len(alertas'))
                   verdes == SelectSeq(resultados,
                                       LAMBDA r : r.score_total >= UmbralVerde * 100)
               IN  /\ Len(nuevas) = Len(verdes)
                   /\ \A i \in DOMAIN nuevas :
                         /\ nuevas[i].categoria = verdes[i].categoria
                         /\ nuevas[i].score = verdes[i].score_total
                         /\ nuevas[i].color = "verde"
                   /\ \A i \in DOMAIN resultados :
                         resultados[i].color \in {"amarillo", "rojo"} =>
                             \A j \in DOMAIN nuevas :
                                 nuevas[j].categoria # resultados[i].categoria
         ]_vars

\* a committed batch with a verde result, alerted, and a result that is not
\* verde, not alerted, after an earlier alert
C24_Testigo ==
    /\ paso # "paso_5" /\ paso # "reporte"
    /\ Len(alertas) >= 2
    /\ \E i \in DOMAIN retorno : retorno[i].color = "verde"
    /\ \E i \in DOMAIN retorno : retorno[i].color # "verde"

\* C25: main with --reporte shows the report without executing the pipeline
\* and leaves the persistent store unchanged: no step of a --reporte
\* invocation inserts or updates a row of scores or appends a row to alertas
C25_ReporteNoEscribe ==
    [][modo = "reporte" => (scores' = scores /\ alertas' = alertas)]_vars

\* C26: the urgency estimator and obtener_prediccion use, for a category,
\* the xcorr_medios_congreso record with the greatest fecha_analisis among
\* the records of that category and type: what each returns is determined
\* by that record (its coefficient, lag and significance), never by a record
\* of another category or analysis type nor by an older one, and is the
\* "no record" outcome iff there is no such record
C26_UltimoRegistroXcorr ==
    LET Ultimos(c) ==
            { i \in DOMAIN correlaciones :
                /\ correlaciones[i].categoria = c
                /\ correlaciones[i].tipo_analisis = "xcorr_medios_congreso"
                /\ \A j \in DOMAIN correlaciones :
                      (/\ correlaciones[j].categoria = c
                       /\ correlaciones[j].tipo_analisis = "xcorr_medios_congreso") =>
                          correlaciones[j].fecha_analisis <=
                              correlaciones[i].fecha_analisis }
    IN  /\ urg.categoria # "" =>
              IF Ultimos(urg.categoria) = {}
              THEN ~urg.hay_fila /\ urg.corr_score = 0
              ELSE \A i \in Ultimos(urg.categoria) :
                      LET f == correlaciones[i]
                      IN  /\ urg.hay_fila
                          /\ urg.fila_significativa = (f.significativo = 1)
                          /\ urg.corr_score =
                               IF f.significativo = 1
                               THEN Min(Abs(f.coeficiente) * 150, 1000000)
                               ELSE Min(Abs(f.coeficiente) * 50, 300000)
        /\ sal.fn = "obtener_prediccion" =>
              IF Ultimos(sal.r.categoria) = {}
              THEN sal.r.confianza = 0 /\ sal.r.dias_estimados = <<>>
                   /\ sal.r.prediccion = "Sin datos suficientes para predicción"
              ELSE \A i \in Ultimos(sal.r.categoria) :
                      LET f == correlaciones[i]
                      IN  /\ sal.r.prediccion # "Sin datos suficientes para predicción"
                          /\ sal.r.lag_historico_dias = f.lag_optimo
                          /\ sal.r.correlacion = f.coeficiente
                          /\ sal.r.significativo = (f.significativo = 1)
                          /\ sal.r.dias_estimados =
                               IF f.significativo = 1 THEN <<f.lag_optimo>> ELSE <<>>

\* both consumers have answered for a category that has an older record
\* with other values than the latest one
C26_Testigo ==
    /\ urg.categoria # ""
    /\ sal.fn = "obtener_prediccion"
    /\ sal.r.categoria = urg.categoria
    /\ \E i, j \in DOMAIN correlaciones :
          /\ correlaciones[i].categoria = urg.categoria
          /\ correlaciones[j].categoria = urg.categoria
          /\ correlaciones[i].tipo_analisis = "xcorr_medios_congreso"
          /\ correlaciones[j].tipo_analisis = "xcorr_medios_congreso"
          /\ correlaciones[i].fecha_analisis < correlaciones[j].fecha_analisis
          /\ correlaciones[i].coeficiente # correlaciones[j].coeficiente
          /\ sal.r.correlacion = correlaciones[j].coeficiente

C28_SignificativoSegunPValue ==
    \A i \in DOMAIN correlaciones :
        (correlaciones[i].significativo = 1) <=>
            (/\ correlaciones[i].p_value # NaN
             /\ correlaciones[i].p_value < PValueThreshold)

\* C29: table resoluciones never holds two rows of the same (semana,
\* categoria), however often the tracker runs; and right after a run, for
\* every row of a week the run processed, with predicted-high = (the average
\* of the category's score_total over the week >= 50, no score counting as
\* not high) and actual-high = (the filings of the week > the category's
\* average of filings per week): acierto = 1 and tipo 'acierto' iff
\* predicted-high equals actual-high; acierto = 0 and 'sobreestimacion' iff
\* predicted-high and not actual-high; acierto = 0 and 'subestimacion' iff
\* actual-high and not predicted-high
C29_AciertoYUnaFilaPorSemana ==
    /\ \A i, j \in DOMAIN resoluciones :
          (/\ resoluciones[i].semana = resoluciones[j].semana
           /\ resoluciones[i].categoria = resoluciones[j].categoria) => i = j
    /\ sal.fn = "calcular_resoluciones_semanales" =>
          \A i \in DOMAIN resoluciones :
              LET r == resoluciones[i]
                  procesada ==
                      /\ r.semana * DiasPorSemana <= dia
                      /\ \E s \in DOMAIN scores : Semana(scores[s].fecha) = r.semana
                  filas == { s \in DOMAIN scores :
                               /\ scores[s].categoria = r.categoria
                               /\ (r.semana - 1) * DiasPorSemana < scores[s].fecha
                               /\ scores[s].fecha <= r.semana * DiasPorSemana }
                  RECURSIVE Total(_)
                  Total(S) == IF S = {} THEN 0
                              ELSE LET s == CHOOSE s \in S : TRUE
                                   IN  scores[s].score_total + Total(S \ {s})
                  docs == sil_documentos[r.categoria]
                  RECURSIVE Docs(_)
                  Docs(W) == IF W = {} THEN 0
                             ELSE LET w == CHOOSE w \in W : TRUE
                                  IN  docs[w] + Docs(W \ {w})
                  reales == IF r.semana \in DOMAIN docs THEN docs[r.semana] ELSE 0
                  alta_prevista ==
                      filas # {} /\ Total(filas) >= 50 * 100 * Cardinality(filas)
                  alta_real ==
                      IF DOMAIN docs = {} THEN reales > 0
                      ELSE reales * Cardinality(DOMAIN docs) > Docs(DOMAIN docs)
              IN  procesada =>
                    /\ r.fecha_calculo = dia
                    /\ r.docs_reales = reales
                    /\ r.acierto \in {0, 1}
                    /\ r.tipo_resultado \in {"acierto", "sobreestimacion", "subestimacion"}
                    /\ (r.acierto = 1 /\ r.tipo_resultado = "acierto")
                           <=> (alta_prevista = alta_real)
                    /\ (r.acierto = 0 /\ r.tipo_resultado = "sobreestimacion")
                           <=> (alta_prevista /\ ~alta_real)
                    /\ (r.acierto = 0 /\ r.tipo_resultado = "subestimacion")
                           <=> (alta_real /\ ~alta_prevista)

\* a second run of the tracker after the scores changed: the table holds an
\* overestimate, an underestimate and a hit with filings, and a row of the
\* first run whose week has no score any more
C29_Testigo ==
    /\ sal.fn = "calcular_resoluciones_semanales"
    /\ ejecuciones = 2
    /\ \E i \in DOMAIN resoluciones : resoluciones[i].tipo_resultado = "sobreestimacion"
    /\ \E i \in DOMAIN resoluciones : resoluciones[i].tipo_resultado = "subestimacion"
    /\ \E i \in DOMAIN resoluciones :
          /\ resoluciones[i].tipo_resultado = "acierto"
          /\ resoluciones[i].docs_reales > 0
    /\ \E i \in DOMAIN resoluciones :
          /\ resoluciones[i].semana * DiasPorSemana <= dia
          /\ ~ \E s \in DOMAIN scores :
                 Semana(scores[s].fecha) = resoluciones[i].semana

\* C30: calcular_todos_los_scores commits once, after the loop over all
\* categories: tables scores and alertas change only in the step that
\* follows the last category, where they take the rows the batch wrote; a
\* step of the loop leaves them as they were, and when the score of the
\* k-th category raises, the batch ends with both tables unchanged and the
\* rows written for the earlier categories discarded
C30_UnSoloCommit ==
    [][/\ (scores' # scores \/ alertas' # alertas) =>
             /\ EnScoring
             /\ k = Len(CATEGORIAS) + 1
             /\ scores' = conn.scores
             /\ alertas' = conn.alertas
       /\ (/\ EnScoring
           /\ k \in 1..Len(CATEGORIAS)
           /\ corrida'.estado = "abortada"
           /\ paso' = "inactivo") =>
             /\ scores' = scores
             /\ alertas' = alertas
             /\ conn' = SinConexion
      ]_vars

\* a batch has raised at the second category after the row and the alert of
\* the first were written: neither is in the store
C30_Testigo ==
    /\ paso = "inactivo"
    /\ corrida.estado = "abortada"
    /\ corrida.fallo = CATEGORIAS[2]
    /\ corrida.dia = dia
    /\ ~FallaCategoria(senales[CATEGORIAS[1]], tabla_correlaciones)
    /\ calcular_score_categoria(CATEGORIAS[1], senales[CATEGORIAS[1]],
                                correlaciones, dia).color = "verde"
    /\ ~ExisteScore(scores, CATEGORIAS[1], dia)
    /\ alertas = <<>>

====
